---- MODULE Spec2Model ----
(***************************************************************************)
(* File-access subsystem of the ATS backend: FileService                   *)
(* (services/fileService.js), the serve/download middleware                *)
(* (middleware/serveFiles.js, kept in middleware/upload.js), the           *)
(* FileDocument schema and the file controller.                            *)
(*                                                                         *)
(* Every handler is an async function; it is modelled as one action per    *)
(* stretch of code between two awaits that touch the database or the disk, *)
(* so that handlers of concurrent requests interleave as they do in the    *)
(* single-threaded event loop.                                             *)
(***************************************************************************)
EXTENDS Integers, Sequences, FiniteSets, TLC

(* ---------------------------------------------------------------- bounds *)
MaxBlobs == 2        \* blobs on disk at the same time
RandomSpace == 2     \* distinct values of crypto.randomBytes(16)
TickDays == 15       \* days the clock advances per Tick
MaxTime == 45        \* last day the clock reaches
MaxAccess == 2       \* cap on accessCount
MaxAllowed == 1      \* cap on the size of allowedUsers
MaxClock == 5        \* cap on the ticks the token service's clock runs
RateLimit == 2       \* limit of the rate-limited route
RateWindow == 2      \* window of the rate-limited route, in ticks of the clock
ResetTtl == 3        \* expiresIn of a password-reset token, in ticks of the clock
MaxAttempts == 6     \* cap on the attempts counted for a reset token

(* ------------------------------------------------------ program constants *)
GraceDays == 30      \* deleteFile: schedulePhysicalDeletion(file.s3Key, 30)

Users == {"u1", "u2", "u3", "u4"}
RoleOf == [u \in Users |->
             CASE u = "u1" -> "recruiter"
               [] u = "u2" -> "client"
               [] u = "u3" -> "admin"
               [] OTHER    -> "super_admin"]

AccessLevels == {"public", "internal", "confidential", "restricted"}
EntityTypes == {"Candidate", "Client"}
EntityId == "e1"
Categories == {"resume", "other"}

\* original file names, as sequences of characters
OriginalNames == { <<"c", "-", "v", ".", "p">> }

NoFile == [exists |-> FALSE]
\* no user id in a field of a document
NoUser == "none"
\* req.user of a request without a valid session
Anonymous == [kind |-> "none"]
NoCandidate == [exists |-> FALSE]
NoDate == -1
Idle == [op |-> "none", pc |-> "idle"]

\* the callers the rate limiter tells apart (req.ip, req.user._id) and the
\* keys of the Map: `rate:${identifier}`, `${key}:window`, `reset:${userId}`
Identifiers == {"ip1", "ip2"}
StorageKeys ==
  {<<"rate", i>> : i \in Identifiers} \cup
  {<<"rate", i, "window">> : i \in Identifiers} \cup
  {<<"reset", u>> : u \in {"u1"}}
\* storage.get(key) of a key that is not in the Map
NoItem == [exists |-> FALSE]


VARIABLES
  files,       \* FileDocument collection: id -> row, or NoFile
  nextId,      \* next ObjectId to hand out
  issued,      \* history: the s3Key given to each row at creation, by id
  blobs,       \* files on disk under uploadDir, by s3Key
  candidate,   \* the Candidate document with id EntityId, or NoCandidate
  storage,     \* the Map of TokenService: key -> item, or NoItem
  time,        \* Date.now() as TokenService reads it, in ticks of the clock
  scanTimers,  \* pending setTimeout callbacks of initiateVirusScan
  delTimers,   \* pending setTimeout callbacks of schedulePhysicalDeletion
  now,         \* the clock, in days
  reqs,        \* the requests: slot -> request in flight, or its outcome
  sweep        \* the run of cleanupDeletedFiles started by the hourly interval

vars == <<files, nextId, issued, blobs, candidate, storage, time, scanTimers, delTimers, now, reqs, sweep>>

\* the requests that can be in flight at the same time
Slots == {1, 2}
\* the ObjectIds new FileDocument() hands out, in this order
FileIds == {1, 2, 3}

(* ------------------------------------------------------------ principals *)
\* req.user as set by protect / isLoggedIn: the User document
UserDoc(u) == [kind |-> "doc", _id |-> u, role |-> RoleOf[u]]
\* req.user._id, file.uploadedBy: a bare ObjectId
ObjectId(u) == [kind |-> "id", _id |-> u]

\* x.toString(): an ObjectId prints its hex string, a document prints its
\* inspect() text, which is never the hex string of an id
toString(x) == IF x.kind = "id" THEN <<"hex", x._id>> ELSE <<"inspect", x._id>>
\* x.role: undefined on an ObjectId
RoleProp(x) == IF x.kind = "doc" THEN x.role ELSE "undefined"
\* MongooseArray.includes(x): an ObjectId argument is compared by its hex
\* string, any other object by identity
Includes(ids, x) == x.kind = "id" /\ x._id \in ids

(* --------------------------------------------------------------- strings *)
RECURSIVE IndexOfDot(_, _)
IndexOfDot(s, i) ==
  IF i > Len(s) THEN 0
  ELSE IF s[i] = "." THEN i ELSE IndexOfDot(s, i + 1)

RECURSIVE LastIndexOfDot(_, _)
LastIndexOfDot(s, i) ==
  IF i < 1 THEN 0
  ELSE IF s[i] = "." THEN i ELSE LastIndexOfDot(s, i - 1)

\* originalName.split('.')[0]
FirstSegment(s) ==
  LET d == IndexOfDot(s, 1) IN IF d = 0 THEN s ELSE SubSeq(s, 1, d - 1)

\* originalName.split('.').pop()
LastSegment(s) ==
  LET d == LastIndexOfDot(s, Len(s)) IN SubSeq(s, d + 1, Len(s))

AlphaNum == {"a", "b", "c", "p", "v", "0", "1"}

\* .replace(/[^a-zA-Z0-9]/g, '_').substring(0, 50)
Sanitize(s) ==
  LET r == [i \in 1..Len(s) |-> IF s[i] \in AlphaNum THEN s[i] ELSE "_"]
  IN SubSeq(r, 1, IF Len(r) < 50 THEN Len(r) ELSE 50)

\* `${entityType}/${entityId}/${category}/${timestamp}_${randomString}_${sanitizedName}.${extension}`
generateFileName(originalName, entityType, entityId, category, timestamp, randomString) ==
  [entityType |-> entityType, entityId |-> entityId, category |-> category,
   timestamp |-> timestamp, random |-> randomString,
   name |-> Sanitize(FirstSegment(originalName)),
   ext |-> LastSegment(originalName)]

\* fileName.split('/').pop(): the last path component of the key
LastComponent(key) ==
  [timestamp |-> key.timestamp, random |-> key.random, name |-> key.name, ext |-> key.ext]

(* ---------------------------------------- determineCategoryFromFieldName *)
\* one character of String.prototype.toLowerCase
LowerChar(c) ==
  CASE c = "A" -> "a"
       [] c = "B" -> "b"
       [] c = "C" -> "c"
       [] c = "D" -> "d"
       [] c = "E" -> "e"
       [] c = "F" -> "f"
       [] c = "G" -> "g"
       [] c = "H" -> "h"
       [] c = "I" -> "i"
       [] c = "J" -> "j"
       [] c = "K" -> "k"
       [] c = "L" -> "l"
       [] c = "M" -> "m"
       [] c = "N" -> "n"
       [] c = "O" -> "o"
       [] c = "P" -> "p"
       [] c = "Q" -> "q"
       [] c = "R" -> "r"
       [] c = "S" -> "s"
       [] c = "T" -> "t"
       [] c = "U" -> "u"
       [] c = "V" -> "v"
       [] c = "W" -> "w"
       [] c = "X" -> "x"
       [] c = "Y" -> "y"
       [] c = "Z" -> "z"
       [] OTHER -> c

\* fieldName.toLowerCase()
toLowerCase(str) == [i \in 1..Len(str) |-> LowerChar(str[i])]

\* str.startsWith(key)
includes_atStart(str, key) ==
  Len(key) <= Len(str) /\ SubSeq(str, 1, Len(key)) = key

\* str.includes(key)
includes(str, key) ==
  \E i \in 0..(Len(str) - Len(key)) : SubSeq(str, i + 1, i + Len(key)) = key

\* categoryMap, in the order Object.entries walks it
categoryMap ==
  << <<<<"r", "e", "s", "u", "m", "e">>, "resume">>,
     <<<<"c", "v">>, "resume">>,
     <<<<"c", "e", "r", "t", "i", "f", "i", "c", "a", "t", "e">>, "education_certificate">>,
     <<<<"e", "d", "u", "c", "a", "t", "i", "o", "n">>, "education_certificate">>,
     <<<<"e", "x", "p", "e", "r", "i", "e", "n", "c", "e">>, "experience_letter">>,
     <<<<"r", "e", "l", "i", "e", "v", "i", "n", "g">>, "relieving_letter">>,
     <<<<"p", "a", "y", "s", "l", "i", "p">>, "payslip">>,
     <<<<"s", "a", "l", "a", "r", "y">>, "payslip">>,
     <<<<"b", "a", "n", "k">>, "bank_statement">>,
     <<<<"o", "f", "f", "e", "r">>, "offer_letter">>,
     <<<<"a", "a", "d", "h", "a", "a", "r">>, "kyc_document">>,
     <<<<"p", "a", "n">>, "kyc_document">>,
     <<<<"p", "a", "s", "s", "p", "o", "r", "t">>, "kyc_document">>,
     <<<<"p", "h", "o", "t", "o">>, "photo">>,
     <<<<"a", "g", "r", "e", "e", "m", "e", "n", "t">>, "agreement">>,
     <<<<"p", "o", "l", "i", "c", "y">>, "policy_document">> >>

\* the category of the first entry from index i on whose key the name includes
RECURSIVE FirstMatch(_, _)
FirstMatch(lowerFieldName, i) ==
  IF i > Len(categoryMap) THEN "other"
  ELSE IF includes(lowerFieldName, categoryMap[i][1]) THEN categoryMap[i][2]
  ELSE FirstMatch(lowerFieldName, i + 1)

\* FileService.determineCategoryFromFieldName
determineCategoryFromFieldName(fieldName) ==
  FirstMatch(toLowerCase(fieldName), 1)

(* ------------------------------------------------------------------ rows *)
\* a document of fileDocumentSchema: the fields given, the defaults for the rest
FileDocument(id, originalName, key, category, entityType, entityId, uploadedBy) ==
  [exists |-> TRUE, _id |-> id,
   originalName |-> originalName,
   fileName |-> LastComponent(key),
   s3Key |-> key,
   category |-> category,
   entityType |-> entityType,
   entityId |-> entityId,
   isVerified |-> FALSE, verifiedBy |-> NoUser, verifiedAt |-> NoDate,
   verificationNotes |-> "",
   virusScanStatus |-> "pending",
   accessLevel |-> "internal",
   allowedUsers |-> {},
   uploadedBy |-> uploadedBy,
   lastAccessedBy |-> NoUser, lastAccessedAt |-> NoDate,
   accessCount |-> 0,
   isDeleted |-> FALSE, deletedBy |-> NoUser, deletedAt |-> NoDate]

\* the document built without the category of the call
NewFileDocument_otherCategory(id, originalName, key, category, entityType, entityId, uploadedBy) ==
  FileDocument(id, originalName, key, "other", entityType, entityId, uploadedBy)

\* new FileDocument({ originalName, fileName, ..., category, entityType, entityId, uploadedBy })
NewFileDocument(id, originalName, key, category, entityType, entityId, uploadedBy) ==
  FileDocument(id, originalName, key, category, entityType, entityId, uploadedBy)

\* the enum of category, which save() validates
\* the enum of the category path of the schema
CategoryEnum ==
  {"resume", "education_certificate", "experience_letter", "relieving_letter",
   "payslip", "bank_statement", "offer_letter", "kyc_document", "photo",
   "agreement", "policy_document", "other"}

Validates(doc) == doc.category \in CategoryEnum

Rows == {id \in FileIds : files[id].exists}

\* the insert checked against a unique index on s3Key alone
ViolatesUnique_s3KeyOnly(doc) ==
  \E id \in Rows : files[id].s3Key = doc.s3Key

\* the unique indexes on fileName and s3Key reject the insert
ViolatesUnique(doc) ==
  \E id \in Rows : files[id].s3Key = doc.s3Key \/ files[id].fileName = doc.fileName

Free(s) == reqs[s].pc \in {"idle", "done"}

Init ==
  /\ files = [id \in FileIds |-> NoFile]
  /\ nextId = 1
  /\ issued = << >>
  /\ blobs = {}
  /\ candidate = NoCandidate
  /\ storage = [key \in StorageKeys |-> NoItem]
  /\ time = 0
  /\ scanTimers = {}
  /\ delTimers = {}
  /\ now = 0
  /\ reqs = [s \in Slots |-> Idle]
  /\ sweep = Idle

(* --------------------------------------------------------------- the clock *)
\* a handler answers within the day: the clock moves between requests
Advance(days) ==
  /\ now + days <= MaxTime
  /\ \A s \in Slots : Free(s)
  /\ now' = now + days
  /\ UNCHANGED <<files, nextId, issued, blobs, candidate, storage, time, scanTimers, delTimers, reqs, sweep>>

Tick == Advance(TickDays)

\* the grace period runs out
Month == Advance(GraceDays + 1)

(* ------------------------------------------------------------ uploadSingle *)
\* uploadSingle returns the document, or throws AppError('File upload failed', 500);
\* written tells whether fs.writeFile had succeeded
UploadAnswer(category, status, doc, written) ==
  [op |-> "uploadSingle", pc |-> "done", status |-> status,
   category |-> category, doc |-> doc, written |-> written]

\* the handler going on after a write that threw
WriteOutcome_ignored(ok, next, failed) == next

\* await fs.writeFile(filePath, file.buffer) inside the try: the handler goes
\* on when it succeeds and takes the catch when it throws
WriteOutcome(ok, next, failed) == IF ok THEN next ELSE failed

\* FileService.uploadSingle up to the blob write: generate the key, create the
\* directory, write the file; a failed write is caught and rethrown as 500
uploadSingle_write(s, originalName, entityType, uploadedBy, category, rnd, ok) ==
  /\ Free(s)
  /\ nextId \in FileIds
  /\ LET key == generateFileName(originalName, entityType, EntityId, category, now, rnd) IN
     /\ Cardinality(blobs \cup {key}) <= MaxBlobs
     /\ blobs' = IF ok THEN blobs \cup {key} ELSE blobs
     /\ reqs' = [reqs EXCEPT ![s] =
          WriteOutcome(ok,
            [op |-> "uploadSingle", pc |-> "save", status |-> 0,
             originalName |-> originalName, entityType |-> entityType,
             uploadedBy |-> uploadedBy, category |-> category, key |-> key,
             written |-> ok],
            UploadAnswer(category, 500, NoFile, FALSE))]
  /\ UNCHANGED <<files, nextId, issued, candidate, storage, time, scanTimers, delTimers, now, sweep>>

\* FileService.uploadSingle from the document on: build it, save it, start the
\* scan timer, return the document; a failed save is caught and rethrown as 500
uploadSingle_save(s, ok) ==
  /\ reqs[s].op = "uploadSingle" /\ reqs[s].pc = "save"
  /\ nextId \in FileIds
  /\ LET r == reqs[s]
         doc == NewFileDocument(nextId, r.originalName, r.key, r.category,
                                r.entityType, EntityId, r.uploadedBy)
     IN IF ok /\ Validates(doc) /\ ~ViolatesUnique(doc)
        THEN /\ files' = [files EXCEPT ![nextId] = doc]
             /\ issued' = Append(issued, doc.s3Key)
             /\ nextId' = nextId + 1
             /\ scanTimers' = scanTimers \cup {doc._id}
             /\ reqs' = [reqs EXCEPT ![s] = UploadAnswer(r.category, 200, doc, r.written)]
        ELSE /\ reqs' = [reqs EXCEPT ![s] = UploadAnswer(r.category, 500, NoFile, r.written)]
             /\ UNCHANGED <<files, issued, nextId, scanTimers>>
  /\ UNCHANGED <<blobs, candidate, storage, time, delTimers, now, sweep>>

(* ---------------------------------------------------------- uploadMultiple *)
\* upload field names of the callers' forms
ResumeField == <<"r", "e", "s", "u", "m", "e">>
PanCardField == <<"p", "a", "n", "C", "a", "r", "d">>
DocumentsField == <<"d", "o", "c", "u", "m", "e", "n", "t", "s">>

\* req.files as multer builds it: Object.entries order, one file array per field
MultiFiles ==
  LET n == CHOOSE x \in OriginalNames : TRUE IN
  { << >>,
    << <<ResumeField, <<n>> >>, <<PanCardField, <<n>> >> >>,
    << <<DocumentsField, <<n, n>> >> >> }

\* the two nested for loops: one (fieldName, file) pair per upload, in order
RECURSIVE FlattenFiles(_)
FlattenFiles(fls) ==
  IF fls = << >> THEN << >>
  ELSE [i \in 1..Len(fls[1][2]) |-> [fieldName |-> fls[1][1], originalName |-> fls[1][2][i]]]
       \o FlattenFiles(Tail(fls))

NoMapping == [fields |-> {}, thrown |-> TRUE]

\* a promise combinator that waits for every upload and reports what succeeded
PromiseAll_settled(parts, answer) ==
  IF answer # "pending" THEN answer
  ELSE IF \A i \in 1..Len(parts) : parts[i].pc \in {"ok", "failed"} THEN "ok"
  ELSE "pending"

\* await Promise.all(uploadPromises): rejected by the first rejection, fulfilled
\* when every promise is fulfilled, settled once
PromiseAll(parts, answer) ==
  IF answer # "pending" THEN answer
  ELSE IF \E i \in 1..Len(parts) : parts[i].pc = "failed" THEN "error"
  ELSE IF \A i \in 1..Len(parts) : parts[i].pc = "ok" THEN "ok"
  ELSE "pending"

\* the uploadMultiple request after one of its uploads moved: the caller gets
\* uploadedFiles when the await returns, and the AppError when it throws
MultiRequest(r, parts, uploadedFiles) ==
  LET answer == PromiseAll(parts, r.answer) IN
  [r EXCEPT !.parts = parts,
            !.uploadedFiles = uploadedFiles,
            !.answer = answer,
            !.returned = IF r.answer = "pending" /\ answer = "ok"
                         THEN [fields |-> uploadedFiles, thrown |-> FALSE]
                         ELSE IF answer = "error" THEN NoMapping ELSE r.returned,
            !.status = IF answer = "ok" THEN 200 ELSE IF answer = "error" THEN 500 ELSE 0,
            !.pc = IF \A i \in 1..Len(parts) : parts[i].pc \in {"ok", "failed"}
                   THEN "done" ELSE "running"]

\* FileService.uploadMultiple up to the await: every uploadSingle call runs to
\* its first await (category, key with Date.now() and random bytes) in the loop
uploadMultiple_start(s, fls, entityType, uploadedBy, rnds) ==
  /\ Free(s)
  /\ LET flat == FlattenFiles(fls)
         parts == [i \in 1..Len(flat) |->
                    LET category == determineCategoryFromFieldName(flat[i].fieldName) IN
                    [fieldName |-> flat[i].fieldName,
                     originalName |-> flat[i].originalName,
                     category |-> category,
                     key |-> generateFileName(flat[i].originalName, entityType, EntityId,
                                              category, now, rnds[i]),
                     pc |-> "write", written |-> FALSE, doc |-> NoFile]]
     IN /\ DOMAIN rnds = 1..Len(flat)
        /\ Cardinality(blobs \cup {parts[i].key : i \in 1..Len(parts)}) <= MaxBlobs
        /\ reqs' = [reqs EXCEPT ![s] =
             MultiRequest([op |-> "uploadMultiple", pc |-> "running", status |-> 0,
                           entityType |-> entityType, uploadedBy |-> uploadedBy,
                           parts |-> parts, uploadedFiles |-> {},
                           answer |-> "pending", returned |-> NoMapping],
                          parts, {})]
  /\ UNCHANGED <<files, nextId, issued, blobs, candidate, storage, time, scanTimers, delTimers, now, sweep>>

\* one uploadSingle of the batch: mkdir and fs.writeFile; a throw rejects its promise
uploadMultiple_write(s, i, ok) ==
  /\ reqs[s].op = "uploadMultiple"
  /\ i \in 1..Len(reqs[s].parts)
  /\ reqs[s].parts[i].pc = "write"
  /\ LET r == reqs[s]
         part == r.parts[i]
     IN /\ blobs' = IF ok THEN blobs \cup {part.key} ELSE blobs
        /\ reqs' = [reqs EXCEPT ![s] =
             MultiRequest(r, [r.parts EXCEPT ![i] =
                                [part EXCEPT !.pc = WriteOutcome(ok, "save", "failed"),
                                             !.written = ok]],
                          r.uploadedFiles)]
  /\ UNCHANGED <<files, nextId, issued, candidate, storage, time, scanTimers, delTimers, now, sweep>>

\* uploadedFiles[fieldName] = doc
SetField(uploadedFiles, fieldName, doc) ==
  {e \in uploadedFiles : e[1] # fieldName} \cup {<<fieldName, doc>>}

\* one uploadSingle of the batch from the document on: save, scan timer, and
\* the then-callback storing the document under its field name
uploadMultiple_save(s, i, ok) ==
  /\ reqs[s].op = "uploadMultiple"
  /\ i \in 1..Len(reqs[s].parts)
  /\ reqs[s].parts[i].pc = "save"
  /\ nextId \in FileIds
  /\ LET r == reqs[s]
         part == r.parts[i]
         doc == NewFileDocument(nextId, part.originalName, part.key, part.category,
                                r.entityType, EntityId, r.uploadedBy)
     IN IF ok /\ Validates(doc) /\ ~ViolatesUnique(doc)
        THEN /\ files' = [files EXCEPT ![nextId] = doc]
             /\ issued' = Append(issued, doc.s3Key)
             /\ nextId' = nextId + 1
             /\ scanTimers' = scanTimers \cup {doc._id}
             /\ reqs' = [reqs EXCEPT ![s] =
                  MultiRequest(r, [r.parts EXCEPT ![i] = [part EXCEPT !.pc = "ok", !.doc = doc]],
                               SetField(r.uploadedFiles, part.fieldName, doc))]
        ELSE /\ reqs' = [reqs EXCEPT ![s] =
                  MultiRequest(r, [r.parts EXCEPT ![i] = [part EXCEPT !.pc = "failed"]],
                               r.uploadedFiles)]
             /\ UNCHANGED <<files, issued, nextId, scanTimers>>
  /\ UNCHANGED <<blobs, candidate, storage, time, delTimers, now, sweep>>

\* the update of the scan callback writing a result that is not clean
ScanUpdate_infected(file) == [file EXCEPT !.virusScanStatus = "infected"]

\* findByIdAndUpdate(fileId, { virusScanStatus: 'clean', ... })
ScanUpdate(file) == [file EXCEPT !.virusScanStatus = "clean"]

\* a scan that runs for a record whose timer is not set
initiateVirusScan_fire_unset(id, ok) ==
  /\ id \in FileIds
  /\ scanTimers' = scanTimers \ {id}
  /\ files' = IF ok /\ files[id].exists
              THEN [files EXCEPT ![id] = ScanUpdate(files[id])]
              ELSE files
  /\ UNCHANGED <<nextId, issued, blobs, candidate, storage, time, delTimers, now, reqs, sweep>>

\* the setTimeout callback of initiateVirusScan: findByIdAndUpdate, which
\* changes nothing when the row is gone; when it throws, the catch logs
initiateVirusScan_fire(id, ok) ==
  /\ id \in scanTimers
  /\ scanTimers' = scanTimers \ {id}
  /\ files' = IF ok /\ files[id].exists
              THEN [files EXCEPT ![id] = ScanUpdate(files[id])]
              ELSE files
  /\ UNCHANGED <<nextId, issued, blobs, candidate, storage, time, delTimers, now, reqs, sweep>>

(* ----------------------------------------------------------- read policy *)
\* FileService.hasAccess(file, userId): userId is whatever the caller passes
hasAccess(file, userId) ==
  \/ RoleProp(userId) \in {"super_admin", "admin"}
  \/ toString(ObjectId(file.uploadedBy)) = toString(userId)
  \/ Includes(file.allowedUsers, userId)
  \/ file.accessLevel = "public"
  \/ file.accessLevel = "internal" /\ RoleProp(userId) # "client"

\* checkFileAccess(fileDoc, user), the rules evaluated before the Candidate
\* lookup: user is req.user, user._id an ObjectId
checkFileAccess_rules(fileDoc, user) ==
  \/ user.role \in {"admin", "super_admin"}
  \/ toString(ObjectId(fileDoc.uploadedBy)) = toString(ObjectId(user._id))
  \/ \E id \in fileDoc.allowedUsers : toString(ObjectId(id)) = toString(ObjectId(user._id))
  \/ fileDoc.accessLevel = "public"
  \/ fileDoc.accessLevel = "internal" /\ user.role # "client"

\* checkFileAccess, the entity-based rule on the Candidate found (or not)
checkFileAccess_entity(cand, user) ==
  /\ cand.exists
  /\ \/ toString(ObjectId(cand.createdBy)) = toString(ObjectId(user._id))
     \/ /\ cand.assignedTo # NoUser
        /\ toString(ObjectId(cand.assignedTo)) = toString(ObjectId(user._id))

(* ------------------------------------------------------------------ URLs *)
\* the record's url field, `/uploads/${fileName}`, as path segments
FileUrl(key) == <<"uploads", key>>
\* the same path requested below a second /uploads/ prefix
NestedUrl(key) == <<"uploads", "uploads", key>>

\* app.use('/uploads', ...): inside the middleware req.path does not include
\* the mount point
MountedPath(url) == [abs |-> TRUE, segs |-> Tail(url)]

\* req.path.replace('/uploads/', ''): removes the first '/uploads/' of the path
ReplaceUploads(path) ==
  IF path.abs /\ Len(path.segs) > 1 /\ path.segs[1] = "uploads"
  THEN [abs |-> FALSE, segs |-> Tail(path.segs)]
  ELSE path

\* FileDocument.findOne({ s3Key: filePath, isDeleted: false })
FindByPath(filePath) ==
  LET hit == {id \in Rows : /\ ~filePath.abs
                            /\ filePath.segs = <<files[id].s3Key>>
                            /\ ~files[id].isDeleted}
  IN IF hit = {} THEN NoFile ELSE files[CHOOSE id \in hit : TRUE]

(* --------------------------------------------------------------- getFile *)
\* a request of a read path, in flight or answered; row is the metadata row
\* of the target as it was when the handler looked it up
Seen(row) ==
  IF row.exists
  THEN [exists |-> TRUE, isDeleted |-> row.isDeleted, uploadedBy |-> row.uploadedBy,
        accessLevel |-> row.accessLevel, allowedUsers |-> row.allowedUsers,
        entityType |-> row.entityType]
  ELSE NoFile

\* doc is the document the handler holds while it runs, found tells whether
\* its query returned one, tracked whether it has saved the tracking fields
ReadReq(op, pc, target, who, row, doc, status) ==
  [op |-> op, pc |-> pc, target |-> target, who |-> who, row |-> Seen(row),
   found |-> doc.exists, tracked |-> FALSE,
   doc |-> IF pc = "done" THEN NoFile ELSE doc, cand |-> NoCandidate,
   status |-> status]

\* the handler answers
Answer(r, status) == [r EXCEPT !.pc = "done", !.status = status, !.doc = NoFile]

\* !file || file.isDeleted, without the soft-delete test
Missing_ignoresDeleted(file) == ~file.exists

\* !file || file.isDeleted
Missing(file) == ~file.exists \/ file.isDeleted

\* FileService.getFile: findById, the 404 and 403 exits
getFile_find(s, fileId, userId) ==
  /\ Free(s)
  /\ LET file == files[fileId] IN
     /\ file.exists => file.accessCount < MaxAccess
     /\ reqs' = [reqs EXCEPT ![s] =
          IF Missing(file)
          THEN ReadReq("getFile", "done", fileId, userId, file, file, 404)
          ELSE IF ~hasAccess(file, userId)
          THEN ReadReq("getFile", "done", fileId, userId, file, file, 403)
          ELSE ReadReq("getFile", "save", fileId, userId, file, file, 0)]
  /\ UNCHANGED <<files, nextId, issued, blobs, candidate, storage, time, scanTimers, delTimers, now, sweep>>

\* a save() that leaves the count as it was loaded
TrackAccess_noCount(id, doc, by) ==
  [files EXCEPT ![id].lastAccessedBy = by,
                ![id].lastAccessedAt = now,
                ![id].accessCount = doc.accessCount]

\* a save() that also writes the reader over the uploader
TrackAccess_asUploader(id, doc, by) ==
  [files EXCEPT ![id].lastAccessedBy = by,
                ![id].lastAccessedAt = now,
                ![id].accessCount = doc.accessCount + 1,
                ![id].uploadedBy = by]

\* the $set a save() of the access-tracking fields sends; save() throws when
\* the row is gone
TrackAccess(id, doc, by) ==
  [files EXCEPT ![id].lastAccessedBy = by,
                ![id].lastAccessedAt = now,
                ![id].accessCount = doc.accessCount + 1]

\* FileService.getFile: the access-tracking update and its save
getFile_save(s) ==
  /\ reqs[s].op = "getFile" /\ reqs[s].pc = "save"
  /\ LET r == reqs[s] IN
     IF files[r.target].exists
     THEN /\ files' = TrackAccess(r.target, r.doc, r.who._id)
          /\ reqs' = [reqs EXCEPT ![s].pc = "disk", ![s].tracked = TRUE]
     ELSE /\ files' = files
          /\ reqs' = [reqs EXCEPT ![s] = Answer(r, 500)]
  /\ UNCHANGED <<nextId, issued, blobs, candidate, storage, time, scanTimers, delTimers, now, sweep>>

\* FileService.getFile: fs.access on the blob, then the descriptor is returned
getFile_disk(s) ==
  /\ reqs[s].op = "getFile" /\ reqs[s].pc = "disk"
  /\ reqs' = [reqs EXCEPT ![s] =
       Answer(reqs[s], IF reqs[s].doc.s3Key \in blobs THEN 200 ELSE 404)]
  /\ UNCHANGED <<files, nextId, issued, blobs, candidate, storage, time, scanTimers, delTimers, now, sweep>>

(* --------------------------------------------------------- getFileBuffer *)
\* FileService.getFileBuffer: findById and the 404 exit
getFileBuffer_find(s, fileId) ==
  /\ Free(s)
  /\ LET file == files[fileId] IN
     reqs' = [reqs EXCEPT ![s] =
          IF Missing(file)
          THEN ReadReq("getFileBuffer", "done", fileId, Anonymous, file, file, 404)
          ELSE ReadReq("getFileBuffer", "read", fileId, Anonymous, file, file, 0)]
  /\ UNCHANGED <<files, nextId, issued, blobs, candidate, storage, time, scanTimers, delTimers, now, sweep>>

\* FileService.getFileBuffer: fs.readFile, whose error is not caught
getFileBuffer_read(s) ==
  /\ reqs[s].op = "getFileBuffer" /\ reqs[s].pc = "read"
  /\ reqs' = [reqs EXCEPT ![s] =
       Answer(reqs[s], IF reqs[s].doc.s3Key \in blobs THEN 200 ELSE 500)]
  /\ UNCHANGED <<files, nextId, issued, blobs, candidate, storage, time, scanTimers, delTimers, now, sweep>>

(* ------------------------------------------------ serveFile, downloadFile *)
\* the access decision both middleware take once the document is found:
\* the outcome of the rules that need no lookup, or the Candidate lookup next
AccessStep(op, target, user, row, fileDoc) ==
  IF checkFileAccess_rules(fileDoc, user)
  THEN ReadReq(op, "disk", target, user, row, fileDoc, 0)
  ELSE IF fileDoc.entityType = "Candidate"
  THEN ReadReq(op, "candidate", target, user, row, fileDoc, 0)
  ELSE ReadReq(op, "done", target, user, row, fileDoc, 403)

\* fileDoc.accessLevel !== 'public', negated
IsPublic(fileDoc) == fileDoc.accessLevel = "public"

\* serveFile: the path of the request, findOne, the 404 and 401 exits, the
\* access check up to its Candidate lookup
serveFile_find(s, target, url, user) ==
  /\ Free(s)
  /\ LET filePath == ReplaceUploads(MountedPath(url))
         fileDoc == FindByPath(filePath)
         row == files[target]
     IN
     /\ fileDoc.exists /\ user # Anonymous => fileDoc.accessCount < MaxAccess
     /\ reqs' = [reqs EXCEPT ![s] =
          IF ~fileDoc.exists
          THEN ReadReq("serveFile", "done", target, user, row, fileDoc, 404)
          ELSE IF user = Anonymous
          THEN IF ~IsPublic(fileDoc)
               THEN ReadReq("serveFile", "done", target, user, row, fileDoc, 401)
               ELSE ReadReq("serveFile", "disk", target, user, row, fileDoc, 0)
          ELSE AccessStep("serveFile", target, user, row, fileDoc)]
  /\ UNCHANGED <<files, nextId, issued, blobs, candidate, storage, time, scanTimers, delTimers, now, sweep>>

\* downloadFile: findById, the 404 and 401 exits, the access check up to its
\* Candidate lookup
downloadFile_find(s, fileId, user) ==
  /\ Free(s)
  /\ LET fileDoc == files[fileId] IN
     /\ fileDoc.exists /\ user # Anonymous => fileDoc.accessCount < MaxAccess
     /\ reqs' = [reqs EXCEPT ![s] =
          IF Missing(fileDoc)
          THEN ReadReq("downloadFile", "done", fileId, user, fileDoc, fileDoc, 404)
          ELSE IF user = Anonymous
          THEN ReadReq("downloadFile", "done", fileId, user, fileDoc, fileDoc, 401)
          ELSE AccessStep("downloadFile", fileId, user, fileDoc, fileDoc)]
  /\ UNCHANGED <<files, nextId, issued, blobs, candidate, storage, time, scanTimers, delTimers, now, sweep>>

\* checkFileAccess: Candidate.findById and the entity-based rule
checkFileAccess_candidate(s) ==
  /\ reqs[s].op \in {"serveFile", "downloadFile"} /\ reqs[s].pc = "candidate"
  /\ LET r == [reqs[s] EXCEPT !.cand = candidate] IN
     reqs' = [reqs EXCEPT ![s] =
       IF checkFileAccess_entity(candidate, r.who)
       THEN [r EXCEPT !.pc = "disk"]
       ELSE Answer(r, 403)]
  /\ UNCHANGED <<files, nextId, issued, blobs, candidate, storage, time, scanTimers, delTimers, now, sweep>>

\* serveFile, downloadFile: fs.access, the headers, res.sendFile
sendFile(s) ==
  /\ reqs[s].op \in {"serveFile", "downloadFile"} /\ reqs[s].pc = "disk"
  /\ LET r == reqs[s] IN
     reqs' = [reqs EXCEPT ![s] =
       IF r.doc.s3Key \notin blobs THEN Answer(r, 404)
       ELSE IF r.who = Anonymous THEN Answer(r, 200)
       ELSE [r EXCEPT !.pc = "track", !.status = 200]]
  /\ UNCHANGED <<files, nextId, issued, blobs, candidate, storage, time, scanTimers, delTimers, now, sweep>>

\* serveFile, downloadFile: the access-tracking update after the file was sent
trackAccess(s) ==
  /\ reqs[s].op \in {"serveFile", "downloadFile"} /\ reqs[s].pc = "track"
  /\ LET r == reqs[s] IN
     files' = IF files[r.doc._id].exists
              THEN TrackAccess(r.doc._id, r.doc, r.who._id)
              ELSE files
  /\ reqs' = [reqs EXCEPT ![s] =
       Answer([reqs[s] EXCEPT !.tracked = files[reqs[s].doc._id].exists], 200)]
  /\ UNCHANGED <<nextId, issued, blobs, candidate, storage, time, scanTimers, delTimers, now, sweep>>

(* ------------------------------------------------------ getEntityDocuments *)
\* the query of getEntityDocuments, without isDeleted: false
EntityQuery_all(entityType, entityId, category) ==
  {id \in Rows : /\ files[id].entityType = entityType
                 /\ files[id].entityId = entityId
                 /\ category # "null" => files[id].category = category}

\* { entityType, entityId, isDeleted: false } and, when given, the category
EntityQuery(entityType, entityId, category) ==
  {id \in Rows : /\ files[id].entityType = entityType
                 /\ files[id].entityId = entityId
                 /\ files[id].isDeleted = FALSE
                 /\ category # "null" => files[id].category = category}

\* FileService.getEntityDocuments: the rows of the entity that are not deleted
getEntityDocuments(s, entityType, entityId, category) ==
  /\ Free(s)
  /\ reqs' = [reqs EXCEPT ![s] =
       [op |-> "getEntityDocuments", pc |-> "done", status |-> 200,
        result |-> {Seen(files[id]) : id \in EntityQuery(entityType, entityId, category)}]]
  /\ UNCHANGED <<files, nextId, issued, blobs, candidate, storage, time, scanTimers, delTimers, now, sweep>>

(* ------------------------------------------------------------ deleteFile *)
\* the permission test of deleteFile, with an override for administrators
IsUploader_orAdmin(file, userId) ==
  \/ toString(ObjectId(file.uploadedBy)) = toString(userId)
  \/ RoleOf[userId._id] \in {"admin", "super_admin"}

\* file.uploadedBy.toString() === userId.toString()
IsUploader(file, userId) ==
  toString(ObjectId(file.uploadedBy)) = toString(userId)

\* the largest delay setTimeout takes, 2^31 - 1 ms, in whole seconds
TimeoutMaxSeconds == 2147483

\* setTimeout(callback, daysDelay * 24 * 60 * 60 * 1000): the days after which
\* the callback runs; a delay above 2^31 - 1 ms does not fit the timer and is
\* set to 1 ms, which is no day at all
TimerDelay(daysDelay) ==
  IF daysDelay * 24 * 60 * 60 > TimeoutMaxSeconds THEN 0 ELSE daysDelay

\* FileService.deleteFile: findById, the 404 and 403 exits
deleteFile_find(s, fileId, userId) ==
  /\ Free(s)
  /\ LET file == files[fileId] IN
     reqs' = [reqs EXCEPT ![s] =
          IF ~file.exists
          THEN ReadReq("deleteFile", "done", fileId, userId, file, file, 404)
          ELSE IF ~IsUploader(file, userId)
          THEN ReadReq("deleteFile", "done", fileId, userId, file, file, 403)
          ELSE [ReadReq("deleteFile", "save", fileId, userId, file, file, 0)
                  EXCEPT !.doc.isDeleted = TRUE,
                         !.doc.deletedBy = userId._id,
                         !.doc.deletedAt = now]]
  /\ UNCHANGED <<files, nextId, issued, blobs, candidate, storage, time, scanTimers, delTimers, now, sweep>>

\* FileService.deleteFile: the save of the soft-delete fields, then
\* schedulePhysicalDeletion(file.s3Key, 30) sets its timer
deleteFile_save(s) ==
  /\ reqs[s].op = "deleteFile" /\ reqs[s].pc = "save"
  /\ LET r == reqs[s] IN
     IF files[r.target].exists
     THEN /\ files' = [files EXCEPT ![r.target].isDeleted = r.doc.isDeleted,
                                    ![r.target].deletedBy = r.doc.deletedBy,
                                    ![r.target].deletedAt = r.doc.deletedAt]
          /\ delTimers' = delTimers \cup
               {[filePath |-> r.doc.s3Key, at |-> now + TimerDelay(GraceDays)]}
          /\ reqs' = [reqs EXCEPT ![s] = Answer(r, 204)]
     ELSE /\ reqs' = [reqs EXCEPT ![s] = Answer(r, 500)]
          /\ UNCHANGED <<files, delTimers>>
  /\ UNCHANGED <<nextId, issued, blobs, candidate, storage, time, scanTimers, now, sweep>>

\* the setTimeout callback of schedulePhysicalDeletion: fs.unlink, whose error
\* (the blob is already gone) is caught and logged
schedulePhysicalDeletion_fire(t) ==
  /\ t \in delTimers
  /\ now >= t.at
  /\ delTimers' = delTimers \ {t}
  /\ blobs' = blobs \ {t.filePath}
  /\ UNCHANGED <<files, nextId, issued, candidate, storage, time, scanTimers, now, reqs, sweep>>

(* ------------------------------------------- verifyDocument, bulkVerify *)
\* a reviewer of the hr department beside the users above
HrDoc == [kind |-> "doc", _id |-> "u5", role |-> "hr"]

\* restrictTo(...roles): roles.includes(req.user.role)
restrictTo(roles, user) == user.role \in roles

\* the roles the two verify routes name
VerifyRoles == {"admin", "super_admin", "hr"}

\* status === 'approved', for any status
IsApproved_always(status) == TRUE

\* status === 'approved'
IsApproved(status) == status = "approved"

VerifyReq(op, pc, targets, who, given, notes, status) ==
  [op |-> op, pc |-> pc, targets |-> targets, who |-> who, given |-> given,
   notes |-> notes, status |-> status]

\* PATCH /:id/verify: restrictTo, then FileService.verifyDocument up to its
\* findById and the 404 exit
verifyDocument_find(s, fileId, user, status, notes) ==
  /\ Free(s)
  /\ reqs' = [reqs EXCEPT ![s] =
       IF ~restrictTo(VerifyRoles, user)
       THEN VerifyReq("verifyDocument", "done", {fileId}, user, status, notes, 403)
       ELSE IF ~files[fileId].exists
       THEN VerifyReq("verifyDocument", "done", {fileId}, user, status, notes, 404)
       ELSE VerifyReq("verifyDocument", "save", {fileId}, user, status, notes, 0)]
  /\ UNCHANGED <<files, nextId, issued, blobs, candidate, storage, time, scanTimers, delTimers, now, sweep>>

\* the fields a verification sets: verifyDocument's assignments and the update
\* document of bulkVerify
Verified(file, userId, status) ==
  [file EXCEPT !.isVerified = IsApproved(status),
               !.verifiedBy = userId._id,
               !.verifiedAt = now]

\* FileService.verifyDocument: the assignments, the notes when given, save();
\* save() throws when the row is gone
verifyDocument_save(s) ==
  /\ reqs[s].op = "verifyDocument" /\ reqs[s].pc = "save"
  /\ LET r == reqs[s]
         id == CHOOSE i \in r.targets : TRUE
     IN IF files[id].exists
        THEN /\ files' = [files EXCEPT ![id] =
                  [Verified(files[id], ObjectId(r.who._id), r.given)
                     EXCEPT !.verificationNotes =
                       IF r.notes # "" THEN r.notes ELSE files[id].verificationNotes]]
             /\ reqs' = [reqs EXCEPT ![s].pc = "done", ![s].status = 200]
        ELSE /\ files' = files
             /\ reqs' = [reqs EXCEPT ![s].pc = "done", ![s].status = 500]
  /\ UNCHANGED <<nextId, issued, blobs, candidate, storage, time, scanTimers, delTimers, now, sweep>>

\* POST /bulk-verify: restrictTo, then FileService.bulkVerify, one updateMany
\* over the rows whose _id is among fileIds
bulkVerify(s, fileIds, user, status) ==
  /\ Free(s)
  /\ IF ~restrictTo(VerifyRoles, user)
     THEN /\ files' = files
          /\ reqs' = [reqs EXCEPT ![s] =
               VerifyReq("bulkVerify", "done", fileIds, user, status, "", 403)]
     ELSE /\ files' = [id \in FileIds |->
               IF id \in fileIds /\ files[id].exists
               THEN Verified(files[id], ObjectId(user._id), status)
               ELSE files[id]]
          /\ reqs' = [reqs EXCEPT ![s] =
               VerifyReq("bulkVerify", "done", fileIds, user, status, "", 200)]
  /\ UNCHANGED <<nextId, issued, blobs, candidate, storage, time, scanTimers, delTimers, now, sweep>>

(* ---------------------------------------------------- cleanupDeletedFiles *)
RECURSIVE Ascending(_)
Ascending(S) ==
  IF S = {} THEN << >>
  ELSE LET m == CHOOSE x \in S : \A y \in S : x <= y
       IN <<m>> \o Ascending(S \ {m})

\* the query without isDeleted: true
DeletedFiles_anyRow(thirtyDaysAgo) ==
  {id \in Rows : files[id].deletedAt < thirtyDaysAgo}

\* the query returning one document at most
DeletedFiles_limitOne(thirtyDaysAgo) ==
  LET all == {id \in Rows : /\ files[id].isDeleted = TRUE
                            /\ files[id].deletedAt < thirtyDaysAgo}
  IN IF all = {} THEN {} ELSE {CHOOSE id \in all : \A other \in all : id <= other}

\* FileDocument.find({ isDeleted: true, deletedAt: { $lt: thirtyDaysAgo } })
DeletedFiles(thirtyDaysAgo) ==
  {id \in Rows : /\ files[id].isDeleted = TRUE
                 /\ files[id].deletedAt < thirtyDaysAgo}

\* the interval of server.js calls FileService.cleanupDeletedFiles: the find
\* of the rows deleted more than 30 days ago; again tells that the interval
\* has run the sweep before
cleanupDeletedFiles_find ==
  /\ sweep.pc \in {"idle", "done"}
  /\ LET thirtyDaysAgo == now - GraceDays
         deletedFiles == DeletedFiles(thirtyDaysAgo)
     IN sweep' = [op |-> "cleanupDeletedFiles",
                  pc |-> IF deletedFiles = {} THEN "done" ELSE "unlink",
                  queue |-> [i \in 1..Cardinality(deletedFiles) |->
                              [_id |-> Ascending(deletedFiles)[i],
                               s3Key |-> files[Ascending(deletedFiles)[i]].s3Key]],
                  found |-> deletedFiles, visited |-> {}, error |-> FALSE,
                  again |-> sweep.pc = "done"]
  /\ UNCHANGED <<files, nextId, issued, blobs, candidate, storage, time, scanTimers, delTimers, now, reqs>>

\* the loop goes on to the next file, or the sweep returns
NextTurn(file) ==
  [sweep EXCEPT !.queue = Tail(sweep.queue),
                !.visited = sweep.visited \cup {file._id},
                !.pc = IF Tail(sweep.queue) = << >> THEN "done" ELSE "unlink"]

\* the error of one turn leaving the loop and the sweep
Caught_rethrown(file) ==
  [sweep EXCEPT !.pc = "done", !.error = TRUE]

\* catch (error) { console.error(...) }: the loop goes to the next file
Caught(file) == NextTurn(file)

\* one turn of the loop, fs.unlink: when it throws (the blob is absent, or the
\* disk fails) the catch logs and the loop goes to the next file
cleanupDeletedFiles_unlink(ok) ==
  /\ sweep.pc = "unlink"
  /\ LET file == Head(sweep.queue)
     IN IF ok /\ file.s3Key \in blobs
        THEN /\ blobs' = blobs \ {file.s3Key}
             /\ sweep' = [sweep EXCEPT !.pc = "delete"]
        ELSE /\ blobs' = blobs
             /\ sweep' = Caught(file)
  /\ UNCHANGED <<files, nextId, issued, candidate, storage, time, scanTimers, delTimers, now, reqs>>

\* one turn of the loop, FileDocument.findByIdAndDelete: when it throws the
\* catch logs and the loop goes to the next file
cleanupDeletedFiles_delete(ok) ==
  /\ sweep.pc = "delete"
  /\ LET file == Head(sweep.queue)
     IN IF ok
        THEN /\ files' = [files EXCEPT ![file._id] = NoFile]
             /\ sweep' = NextTurn(file)
        ELSE /\ files' = files
             /\ sweep' = Caught(file)
  /\ UNCHANGED <<nextId, issued, blobs, candidate, storage, time, scanTimers, delTimers, now, reqs>>

(* ------------------------------------------------------------ TokenService *)
\* n.toString() and parseInt(str) of the counters and times kept as strings
NumToString(n) == [str |-> n]
parseInt(str) == str.str

\* null, as getIfNotExpired returns it
Null == [null |-> TRUE]

\* the values Date.now() can return at the reads of one synchronous call:
\* each read returns the value of the read before it or the next one
ClockReads(n) ==
  {r \in [1..n -> time..MaxClock] :
     /\ r[1] = time
     /\ \A i \in 2..n : r[i] \in {r[i-1], r[i-1] + 1}}

\* setWithExpiry(key, value, ttlSeconds), Date.now() returning at
setWithExpiry(map, key, value, ttlSeconds, at) ==
  [map EXCEPT ![key] = [exists |-> TRUE, value |-> value, expiresAt |-> at + ttlSeconds]]

\* Date.now() > item.expiresAt
ItemExpired(item, at) == at > item.expiresAt

\* getIfNotExpired(key): the Map after the call, an expired item deleted
ExpireOnGet(map, key, at) ==
  IF map[key].exists /\ ItemExpired(map[key], at)
  THEN [map EXCEPT ![key] = NoItem] ELSE map

\* getIfNotExpired(key): the value returned, null for none
getIfNotExpired(map, key, at) ==
  IF map[key].exists /\ ~ItemExpired(map[key], at) THEN map[key].value ELSE Null

\* the clock of the token service moves on by a tick
Elapse ==
  /\ time < MaxClock
  /\ time' = time + 1
  /\ UNCHANGED <<files, nextId, issued, blobs, candidate, storage, scanTimers, delTimers, now, reqs, sweep>>

\* the hourly interval: cleanupExpired deletes the items past their expiry
cleanupExpired ==
  /\ storage' = [key \in StorageKeys |->
                   IF storage[key].exists /\ time > storage[key].expiresAt
                   THEN NoItem ELSE storage[key]]
  /\ UNCHANGED <<files, nextId, issued, blobs, candidate, time, scanTimers, delTimers, now, reqs, sweep>>

\* TokenService.checkRateLimit(identifier, limit, window), its four reads of
\* the clock returning r[1..4]; the answer is kept in slot s with the window
\* the call fell in and granted, the number of calls of this slot answered
\* allowed in that window so far
checkRateLimit(s, identifier, limit, window, r) ==
  /\ Free(s)
  /\ LET key == <<"rate", identifier>>
         windowKey == <<"rate", identifier, "window">>
         windowStart == getIfNotExpired(storage, windowKey, r[1])
         map1 == ExpireOnGet(storage, windowKey, r[1])
         nowMs == r[2]
         fresh == windowStart = Null \/ nowMs - parseInt(windowStart) > window
         counted == getIfNotExpired(map1, key, r[3])
         currentCount == IF counted = Null THEN 0 ELSE parseInt(counted)
         map2 == ExpireOnGet(map1, key, r[3])
         start == IF fresh THEN nowMs ELSE parseInt(windowStart)
         allowed == fresh \/ currentCount < limit
         before == IF /\ reqs[s].op = "checkRateLimit" /\ reqs[s].identifier = identifier
                      /\ reqs[s].windowStart = start /\ ~fresh
                   THEN reqs[s].granted ELSE 0
     IN /\ storage' =
             IF fresh
             THEN setWithExpiry(setWithExpiry(map1, windowKey, NumToString(nowMs), window, r[3]),
                                key, NumToString(1), window, r[4])
             ELSE IF currentCount >= limit THEN map2
             ELSE setWithExpiry(map2, key, NumToString(currentCount + 1), window, r[4])
        /\ time' = IF ~fresh /\ currentCount >= limit THEN r[3] ELSE r[4]
        /\ reqs' = [reqs EXCEPT ![s] =
             [op |-> "checkRateLimit", pc |-> "done", identifier |-> identifier,
              allowed |-> allowed,
              remaining |-> IF fresh THEN limit - 1
                            ELSE IF currentCount >= limit THEN 0
                            ELSE limit - currentCount - 1,
              resetAt |-> start + window,
              windowStart |-> start,
              calledAt |-> r[1],
              granted |-> before + (IF allowed THEN 1 ELSE 0)]]
  /\ UNCHANGED <<files, nextId, issued, blobs, candidate, scanTimers, delTimers, now, sweep>>

\* hashToken(token): the sha256 digest of the token
hashToken(token) == <<"sha256", token>>

\* the reset tokens a caller can present
ResetTokens == {"tokA", "tokB"}

ResetOps == {"storePasswordResetToken", "verifyPasswordResetToken", "deletePasswordResetToken"}

\* what the calls so far say about the reset token of the user: the token
\* stored last, when, and the calls with a wrong token since
ResetHistory(s) ==
  IF reqs[s].op \in ResetOps
  THEN [current |-> reqs[s].current, storedAt |-> reqs[s].storedAt, wrong |-> reqs[s].wrong]
  ELSE [current |-> "none", storedAt |-> 0, wrong |-> 0]

\* the attempts of the item under key, -1 for no item
AttemptsOf(map, key) == IF map[key].exists THEN map[key].value.attempts ELSE -1

\* TokenService.storePasswordResetToken(userId, token, expiresIn)
storePasswordResetToken(s, userId, token, expiresIn) ==
  /\ Free(s)
  /\ storage' = setWithExpiry(storage, <<"reset", userId>>,
                              [token |-> hashToken(token), createdAt |-> time, attempts |-> 0],
                              expiresIn, time)
  /\ reqs' = [reqs EXCEPT ![s] =
       [op |-> "storePasswordResetToken", pc |-> "done", userId |-> userId,
        current |-> token, storedAt |-> time, wrong |-> 0]]
  /\ UNCHANGED <<files, nextId, issued, blobs, candidate, time, scanTimers, delTimers, now, sweep>>

\* the brute-force test letting one more attempt through
AttemptsSpent_late(storedData) == storedData.attempts > 5

\* storedData.attempts >= 5
AttemptsSpent(storedData) == storedData.attempts >= 5

\* TokenService.verifyPasswordResetToken(userId, token); the answer is kept in
\* slot s with the attempts of the item before and after the call
verifyPasswordResetToken(s, userId, token) ==
  /\ Free(s)
  /\ LET key == <<"reset", userId>>
         storedData == getIfNotExpired(storage, key, time)
         map1 == ExpireOnGet(storage, key, time)
         isValid == storedData.token = hashToken(token)
         h == ResetHistory(s)
         answer == IF storedData = Null THEN FALSE
                   ELSE IF AttemptsSpent(storedData) THEN FALSE
                   ELSE isValid
     IN /\ storage' =
             IF storedData = Null THEN map1
             ELSE IF AttemptsSpent(storedData) THEN [map1 EXCEPT ![key] = NoItem]
             ELSE IF ~isValid
                  THEN [map1 EXCEPT ![key].value.attempts = storedData.attempts + 1]
                  ELSE map1
        /\ reqs' = [reqs EXCEPT ![s] =
             [op |-> "verifyPasswordResetToken", pc |-> "done", userId |-> userId,
              token |-> token, result |-> answer,
              current |-> h.current, storedAt |-> h.storedAt,
              wrongBefore |-> h.wrong,
              wrong |-> IF token # h.current /\ h.wrong < MaxAttempts
                        THEN h.wrong + 1 ELSE h.wrong,
              calledAt |-> time,
              attemptsBefore |-> AttemptsOf(storage, key),
              attemptsAfter |-> AttemptsOf(storage', key)]]
  /\ UNCHANGED <<files, nextId, issued, blobs, candidate, time, scanTimers, delTimers, now, sweep>>

\* TokenService.deletePasswordResetToken(userId)
deletePasswordResetToken(s, userId) ==
  /\ Free(s)
  /\ storage' = [storage EXCEPT ![<<"reset", userId>>] = NoItem]
  /\ reqs' = [reqs EXCEPT ![s] =
       [op |-> "deletePasswordResetToken", pc |-> "done", userId |-> userId,
        current |-> "none", storedAt |-> 0, wrong |-> 0]]
  /\ UNCHANGED <<files, nextId, issued, blobs, candidate, time, scanTimers, delTimers, now, sweep>>

(* ------------------------------------------------------------ the process *)
\* the process stops and starts again: the timers of setTimeout, the
\* handlers in flight and the Map of TokenService are gone, the rows and the
\* blobs stay
Restart ==
  /\ scanTimers' = {}
  /\ delTimers' = {}
  /\ reqs' = [s \in Slots |-> Idle]
  /\ sweep' = Idle
  /\ storage' = [key \in StorageKeys |-> NoItem]
  /\ UNCHANGED <<files, nextId, issued, blobs, candidate, time, now>>

(* ---------------------------------------------------------------- the system *)
\* the store under uploads of one name by one user, deletes of records that
\* are not deleted yet and sweeps, a month at a time, in a process whose
\* deletion timers are lost before they run; save() fails on the unique
\* indexes only, the sweep's unlink and delete do not fail
StoreNext ==
  \/ Month
  \/ \E n \in OriginalNames, c \in Categories, rnd \in 0..(RandomSpace - 1), ok \in BOOLEAN :
       uploadSingle_write(1, n, "Client", "u1", c, rnd, ok)
  \/ uploadSingle_save(1, TRUE)
  \/ \E id \in {i \in Rows : ~files[i].isDeleted} : deleteFile_find(1, id, ObjectId("u1"))
  \/ deleteFile_save(1)
  \/ cleanupDeletedFiles_find
  \/ cleanupDeletedFiles_unlink(TRUE)
  \/ cleanupDeletedFiles_delete(TRUE)

StoreSpec == Init /\ [][StoreNext]_vars

\* one file through its whole life
Next ==
  \/ Tick
  \/ \E s \in {1}, n \in OriginalNames, c \in Categories \cup {"bogus"}, ok \in BOOLEAN :
       nextId = 1 /\ uploadSingle_write(s, n, "Client", "u1", c, 0, ok)
  \/ \E s \in {1}, ok \in BOOLEAN : uploadSingle_save(s, ok)
  \/ \E id \in FileIds, ok \in BOOLEAN : initiateVirusScan_fire(id, ok)
  \/ \E s \in {1}, u \in {"u1"} : getFile_find(s, 1, UserDoc(u))
  \/ \E s \in {1} : getFile_save(s)
  \/ \E s \in {1} : getFile_disk(s)
  \/ \E s \in {1} : deleteFile_find(s, 1, ObjectId("u1"))
  \/ \E s \in {1} : deleteFile_save(s)
  \/ \E t \in delTimers : schedulePhysicalDeletion_fire(t)
  \/ cleanupDeletedFiles_find
  \/ \E ok \in BOOLEAN : cleanupDeletedFiles_unlink(ok)
  \/ \E ok \in BOOLEAN : cleanupDeletedFiles_delete(ok)

Spec == Init /\ [][Next]_vars

\* one file through its whole life in a process that may restart; the event
\* loop runs every timer that stays set and every handler that is in flight,
\* and the scan timer of one second runs before the day is over
LiveNext ==
  \/ scanTimers = {} /\ Tick
  \/ \E n \in OriginalNames, ok \in BOOLEAN :
       nextId = 1 /\ uploadSingle_write(1, n, "Client", "u1", "other", 0, ok)
  \/ \E ok \in BOOLEAN : uploadSingle_save(1, ok)
  \/ \E id \in FileIds, ok \in BOOLEAN : initiateVirusScan_fire(id, ok)
  \/ deleteFile_find(1, 1, ObjectId("u1"))
  \/ deleteFile_save(1)
  \/ \E t \in delTimers : schedulePhysicalDeletion_fire(t)
  \/ cleanupDeletedFiles_find
  \/ \E ok \in BOOLEAN : cleanupDeletedFiles_unlink(ok)
  \/ cleanupDeletedFiles_delete(TRUE)
  \/ Restart

LiveSpec ==
  /\ Init /\ [][LiveNext]_vars
  /\ WF_vars(\E id \in FileIds, ok \in BOOLEAN : initiateVirusScan_fire(id, ok))
  /\ WF_vars(\E ok \in BOOLEAN : uploadSingle_save(1, ok))

\* one file that is uploaded, soft-deleted once and left to the deletion timer
\* and the sweep, on a disk that does not fail; the interval of server.js keeps
\* starting the sweep and every sweep runs to its end
PurgeNext ==
  \/ Tick
  \/ \E n \in OriginalNames, c \in Categories, ok \in BOOLEAN :
       nextId = 1 /\ uploadSingle_write(1, n, "Client", "u1", c, 0, ok)
  \/ \E ok \in BOOLEAN : uploadSingle_save(1, ok)
  \/ \E id \in {i \in Rows : ~files[i].isDeleted} : deleteFile_find(1, id, ObjectId("u1"))
  \/ deleteFile_save(1)
  \/ \E t \in delTimers : schedulePhysicalDeletion_fire(t)
  \/ cleanupDeletedFiles_find
  \/ cleanupDeletedFiles_unlink(TRUE)
  \/ cleanupDeletedFiles_delete(TRUE)

PurgeSpec ==
  /\ Init /\ [][PurgeNext]_vars
  /\ WF_vars(cleanupDeletedFiles_find)
  /\ WF_vars(cleanupDeletedFiles_unlink(TRUE))
  /\ WF_vars(cleanupDeletedFiles_delete(TRUE))

\* the store is filled by uploads, deletes and deletion timers over a month;
\* from the first run of the sweep on nothing else runs, and the disk and the
\* database do not fail, so that one run follows the other on the same store
SweepNext ==
  \/ /\ sweep = Idle
     /\ \/ Month
        \/ \E n \in OriginalNames, rnd \in 0..(RandomSpace - 1) :
             uploadSingle_write(1, n, "Client", "u1", "other", rnd, TRUE)
        \/ uploadSingle_save(1, TRUE)
        \/ \E id \in {i \in Rows : ~files[i].isDeleted} : deleteFile_find(1, id, ObjectId("u1"))
        \/ deleteFile_save(1)
        \/ \E t \in delTimers : schedulePhysicalDeletion_fire(t)
  \/ cleanupDeletedFiles_find
  \/ cleanupDeletedFiles_unlink(TRUE)
  \/ cleanupDeletedFiles_delete(TRUE)

SweepSpec == Init /\ [][SweepNext]_vars

\* the same store and the same runs of the sweep, with an unlink and a delete
\* that may fail for any record
FaultNext ==
  \/ /\ sweep = Idle
     /\ \/ Month
        \/ \E n \in OriginalNames, rnd \in 0..(RandomSpace - 1) :
             uploadSingle_write(1, n, "Client", "u1", "other", rnd, TRUE)
        \/ uploadSingle_save(1, TRUE)
        \/ \E id \in {i \in Rows : ~files[i].isDeleted} : deleteFile_find(1, id, ObjectId("u1"))
        \/ deleteFile_save(1)
        \/ \E t \in delTimers : schedulePhysicalDeletion_fire(t)
  \/ cleanupDeletedFiles_find
  \/ \E ok \in BOOLEAN : cleanupDeletedFiles_unlink(ok)
  \/ \E ok \in BOOLEAN : cleanupDeletedFiles_delete(ok)

FaultSpec == Init /\ [][FaultNext]_vars

(* ------------------------------------------- the read paths over one record *)
\* the users who are ordinary members of staff or clients
Members == {u \in Users : RoleOf[u] \notin {"admin", "super_admin"}}

StoredPolicies ==
  [accessLevel : AccessLevels,
   allowedUsers : {A \in SUBSET Members : Cardinality(A) <= MaxAllowed}]

\* the Candidate documents: createdBy is required, assignedTo is optional
StoredCandidates ==
  {NoCandidate} \cup
  [exists : {TRUE}, createdBy : Members, assignedTo : Members \cup {NoUser}]

\* the store holds one record, uploaded earlier, with any access policy the
\* schema admits, and its blob; the Candidate it may belong to exists or not
InitAccess ==
  /\ \E n \in OriginalNames, t \in EntityTypes, u \in Members, p \in StoredPolicies :
       LET key == generateFileName(n, t, EntityId, "resume", 0, 0)
           doc == [NewFileDocument(1, n, key, "resume", t, EntityId, u)
                     EXCEPT !.accessLevel = p.accessLevel,
                            !.allowedUsers = p.allowedUsers,
                            !.virusScanStatus = "clean"]
       IN /\ files = [id \in FileIds |-> IF id = 1 THEN doc ELSE NoFile]
          /\ issued = <<key>>
          /\ blobs = {key}
  /\ nextId = 2
  /\ candidate \in StoredCandidates
  /\ storage = [key \in StorageKeys |-> NoItem]
  /\ time = 0
  /\ scanTimers = {}
  /\ delTimers = {}
  /\ now = 0
  /\ reqs = [s \in Slots |-> Idle]
  /\ sweep = Idle

Principals == {UserDoc(u) : u \in Users}

\* reads and deletes of the stored record and of an id that has no row
NextAccess ==
  \/ \E s \in {1}, id \in {1, 2}, u \in Users : getFile_find(s, id, UserDoc(u))
  \/ \E s \in {1} : getFile_save(s)
  \/ \E s \in {1} : getFile_disk(s)
  \/ \E s \in {1}, id \in {1, 2} : getFileBuffer_find(s, id)
  \/ \E s \in {1} : getFileBuffer_read(s)
  \/ \E s \in {1}, id \in 1..Len(issued), user \in Principals \cup {Anonymous} :
       \/ serveFile_find(s, id, FileUrl(issued[id]), user)
       \/ serveFile_find(s, id, NestedUrl(issued[id]), user)
  \/ \E s \in {1}, id \in {1, 2}, user \in Principals \cup {Anonymous} :
       downloadFile_find(s, id, user)
  \/ \E s \in {1} : checkFileAccess_candidate(s)
  \/ \E s \in {1} : sendFile(s)
  \/ \E s \in {1} : trackAccess(s)
  \/ \E s \in {1}, t \in EntityTypes : getEntityDocuments(s, t, EntityId, "null")
  \/ \E s \in {1}, id \in {1, 2}, u \in Users : deleteFile_find(s, id, ObjectId(u))
  \/ \E s \in {1} : deleteFile_save(s)

AccessSpec == InitAccess /\ [][NextAccess]_vars

(* ======================================================================= *)
(* Properties of the read paths and of deleteFile, over AccessSpec          *)
(* ======================================================================= *)
ReadOps == {"getFile", "getFileBuffer", "serveFile", "downloadFile"}
PolicyOps == {"getFile", "serveFile", "downloadFile"}

Answered(s, ops) == reqs[s].pc = "done" /\ reqs[s].op \in ops

\* an answered read whose target row existed and was not soft-deleted when the
\* handler looked it up
AnsweredLive(s, ops) ==
  /\ Answered(s, ops)
  /\ reqs[s].row.exists
  /\ ~reqs[s].row.isDeleted

\* C1: a read of a record that is soft-deleted while its row still exists is
\* answered 404 on every read path and for every principal, and
\* getEntityDocuments returns no soft-deleted record
C1_SoftDeletedIsNotFound ==
  \A s \in Slots :
    /\ Answered(s, ReadOps) /\ reqs[s].row.exists /\ reqs[s].row.isDeleted
         => reqs[s].status = 404
    /\ Answered(s, {"getEntityDocuments"})
         => \A d \in reqs[s].result : ~d.isDeleted

\* an administrator has been refused a soft-deleted record whose row is still
\* in the store
C1_Witness ==
  \E s \in Slots :
    /\ Answered(s, {"getFile", "downloadFile"})
    /\ reqs[s].row.exists /\ reqs[s].row.isDeleted
    /\ files[reqs[s].target].exists
    /\ reqs[s].who.role = "admin"
    /\ reqs[s].status = 404

C2_ResolvedRequests ==
  \A s \in Slots :
    AnsweredLive(s, {"serveFile"}) /\ reqs[s].who = Anonymous /\ reqs[s].found
      => reqs[s].status = IF reqs[s].row.accessLevel = "public" THEN 200 ELSE 401

\* the rules of the read policy
PolicyAllows(row, cand, p) ==
  \/ p.role \in {"admin", "super_admin"}
  \/ row.uploadedBy = p._id
  \/ p._id \in row.allowedUsers
  \/ row.accessLevel = "public"
  \/ row.accessLevel = "internal" /\ p.role # "client"
  \/ /\ row.entityType = "Candidate"
     /\ cand.exists
     /\ (cand.createdBy = p._id \/ cand.assignedTo = p._id)

\* C3: a read of a record that is not deleted by an authenticated principal,
\* once the handler has found the record, is granted exactly when one of the
\* six rules of the policy holds
C3_ReadFollowsPolicy ==
  \A s \in Slots :
    AnsweredLive(s, PolicyOps) /\ reqs[s].found /\ reqs[s].who # Anonymous
      => (reqs[s].status = 200 <=> PolicyAllows(reqs[s].row, candidate, reqs[s].who))

\* C4: the uploader of a record that is not deleted is granted every read of
\* it, by getFile and by the serve and download middleware, once the handler
\* has found the record
C4_UploaderReads ==
  \A s \in Slots :
    /\ AnsweredLive(s, PolicyOps) /\ reqs[s].found
    /\ reqs[s].who # Anonymous
    /\ reqs[s].who._id = reqs[s].row.uploadedBy
    => reqs[s].status = 200

\* C5, the answers: deleteFile on an existing row succeeds for the uploader,
\* whose delete marks the row, and is refused with 403 for everyone else
C5_Answers ==
  \A s \in Slots :
    Answered(s, {"deleteFile"}) /\ reqs[s].row.exists
      => IF reqs[s].who._id = reqs[s].row.uploadedBy
         THEN /\ reqs[s].status = 204
              /\ files[reqs[s].target].isDeleted
              /\ files[reqs[s].target].deletedBy = reqs[s].who._id
         ELSE reqs[s].status = 403

SoftDeleteFields(id) ==
  <<files[id].isDeleted, files[id].deletedBy, files[id].deletedAt>>

\* C5, the effects: the soft-delete fields of a row change only in the save of
\* a deleteFile of its uploader
C5_Effects ==
  \A id \in FileIds :
    files[id].exists /\ files'[id].exists /\ SoftDeleteFields(id)' # SoftDeleteFields(id)
      => \E s \in Slots :
           /\ reqs[s].op = "deleteFile" /\ reqs[s].pc = "save"
           /\ reqs[s].target = id
           /\ reqs[s].who._id = files[id].uploadedBy
           /\ reqs'[s].status = 204

\* C5: deleteFile soft-deletes a file if and only if the requester is its
\* uploader, whatever the roles; everyone else gets 403 and the soft-delete
\* fields stay as they were
C5_OnlyUploaderDeletes == []C5_Answers /\ [][C5_Effects]_vars

\* an administrator who is not the uploader has been refused, and the row is
\* still not deleted
C5_Witness ==
  \E s \in Slots :
    /\ Answered(s, {"deleteFile"}) /\ reqs[s].row.exists
    /\ RoleOf[reqs[s].who._id] \in {"admin", "super_admin"}
    /\ reqs[s].status = 403
    /\ ~files[reqs[s].target].isDeleted

\* C6: the assignedTo user of the Candidate that owns a record reads it, and a
\* recruiter who is not uploader, allowed user, creator or assignee does not
C6_AssigneeReads ==
  \A s \in Slots :
    AnsweredLive(s, PolicyOps) /\ reqs[s].found /\ reqs[s].who # Anonymous
      /\ reqs[s].row.entityType = "Candidate" /\ candidate.exists
      => /\ candidate.assignedTo = reqs[s].who._id => reqs[s].status = 200
         /\ ( /\ reqs[s].who.role = "recruiter"
              /\ reqs[s].who._id # reqs[s].row.uploadedBy
              /\ reqs[s].who._id \notin reqs[s].row.allowedUsers
              /\ reqs[s].who._id \notin {candidate.createdBy, candidate.assignedTo} )
            => reqs[s].status # 200

\* C7: no two records, soft-deleted ones included, share an s3Key or a
\* fileName, and no key is issued twice, the keys of purged records included
C7_KeysAreUnique ==
  /\ \A i, j \in Rows :
       i # j => /\ files[i].s3Key # files[j].s3Key
                /\ files[i].fileName # files[j].fileName
  /\ \A i, j \in 1..Len(issued) : i # j => issued[i] # issued[j]

\* three uploads of one original name for one entity and category: the first
\* record is purged, the second is soft-deleted beside the third
C7_Witness ==
  /\ Len(issued) = 3
  /\ ~files[1].exists
  /\ files[2].exists /\ files[2].isDeleted
  /\ files[3].exists /\ ~files[3].isDeleted
  /\ files[2].originalName = files[3].originalName
  /\ files[2].category = files[3].category
  /\ issued[1].category = files[3].category /\ issued[1].name = files[3].s3Key.name

\* an upload has been answered with its document
Uploaded(s) ==
  /\ reqs[s].op = "uploadSingle" /\ reqs[s].pc = "done"
  /\ reqs[s].status = 200

\* C8: the record a successful uploadSingle returns has the category of the
\* call, accessLevel internal, isVerified false, virusScanStatus pending,
\* isDeleted false and accessCount 0
C8_ReturnedRecord ==
  \A s \in Slots :
    Uploaded(s)
      => /\ reqs[s].doc.exists
         /\ reqs[s].doc.category = reqs[s].category
         /\ reqs[s].doc.accessLevel = "internal"
         /\ reqs[s].doc.isVerified = FALSE
         /\ reqs[s].doc.virusScanStatus = "pending"
         /\ reqs[s].doc.isDeleted = FALSE
         /\ reqs[s].doc.accessCount = 0

\* an upload with category resume has been answered with its document
C8_Witness ==
  \E s \in Slots : Uploaded(s) /\ reqs[s].category = "resume"

Pending(id) == files[id].exists /\ files[id].virusScanStatus = "pending"

Clean(id) == files[id].exists /\ files[id].virusScanStatus = "clean"

\* the record is pending and its scan timer is gone: the process restarted
\* before the timer ran, or the update of the timer failed
ScanLost(id) == Pending(id) /\ id \notin scanTimers

\* a record starts pending in the step that answers its upload, with its scan
\* timer still set; its virusScanStatus changes only from pending to clean, in
\* the step that uses up its scan timer
C9_ScanStep ==
  \A id \in FileIds :
    /\ (~files[id].exists /\ files'[id].exists)
         => /\ files'[id].virusScanStatus = "pending"
            /\ id \in scanTimers'
            /\ \E s \in Slots : /\ reqs[s].pc = "save"
                                /\ reqs'[s].op = "uploadSingle" /\ reqs'[s].pc = "done"
                                /\ reqs'[s].status = 200 /\ reqs'[s].doc._id = id
    /\ (files[id].exists /\ files'[id].exists
          /\ files'[id].virusScanStatus # files[id].virusScanStatus)
         => /\ files[id].virusScanStatus = "pending"
            /\ files'[id].virusScanStatus = "clean"
            /\ id \in scanTimers /\ id \notin scanTimers'

\* C9 as claimed: uploadSingle returns without waiting for the scan, the status
\* of every uploaded record changes exactly once, from pending to clean, and
\* every pending record becomes clean
C9_ScannedExactlyOnce ==
  /\ [][C9_ScanStep]_vars
  /\ \A id \in FileIds : [](Pending(id) => <>Clean(id))

\* C9: uploadSingle returns without waiting for the scan, the status of an
\* uploaded record changes at most once, only from pending to clean and never
\* again, and a pending record whose scan timer is set becomes clean unless the
\* timer is lost to a restart or its update fails
C9_ScannedAtMostOnce ==
  /\ [][C9_ScanStep]_vars
  /\ \A id \in FileIds :
       [](Pending(id) /\ id \in scanTimers => <>(Clean(id) \/ ScanLost(id)))

\* the upload has been answered and its record has since become clean
C9_Witness ==
  /\ Uploaded(1) /\ reqs[1].doc.virusScanStatus = "pending"
  /\ Clean(reqs[1].doc._id)
  /\ reqs[1].doc._id \notin scanTimers

\* an upload whose blob write failed is answered 500 without a document
C10_FailedWriteAnswer ==
  \A s \in Slots :
    reqs[s].op = "uploadSingle" /\ reqs[s].pc = "done" /\ ~reqs[s].written
      => reqs[s].status = 500 /\ reqs[s].doc = NoFile

\* the step that answers an upload whose write failed leaves the rows and the
\* scan timers alone, and a row is created only by an upload whose blob was
\* written and is on disk
C10_Step ==
  /\ \A s \in Slots :
       (reqs'[s] # reqs[s] /\ reqs'[s].op = "uploadSingle"
          /\ reqs'[s].pc = "done" /\ ~reqs'[s].written)
         => (files' = files /\ scanTimers' = scanTimers)
  /\ \A id \in FileIds :
       (~files[id].exists /\ files'[id].exists)
         => /\ files'[id].s3Key \in blobs
            /\ \E s \in Slots : /\ reqs[s].pc = "save" /\ reqs[s].written
                                /\ reqs[s].key = files'[id].s3Key

\* C10: when the blob write of uploadSingle fails the call fails, no record is
\* persisted and no scan is scheduled; no row exists whose blob was never written
C10_NoOrphanMetadata == []C10_FailedWriteAnswer /\ [][C10_Step]_vars

\* an upload whose blob write failed has been answered, and there is no row
\* and no scan timer
C10_Witness ==
  /\ reqs[1].op = "uploadSingle" /\ reqs[1].pc = "done" /\ ~reqs[1].written
  /\ Rows = {}
  /\ scanTimers = {}
  /\ blobs = {}

\* the blob or the row of a record goes away in this step
Purged(id) ==
  \/ files[id].s3Key \in blobs /\ files[id].s3Key \notin blobs'
  \/ ~files'[id].exists

\* whatever removes the blob or the row of a record finds the record
\* soft-deleted for the grace period or longer, counted from its deletedAt
C11_Step ==
  \A id \in Rows :
    Purged(id) => (files[id].isDeleted /\ now >= files[id].deletedAt + GraceDays)

\* C11: deleteFile leaves the blob, and neither the deletion timer nor the
\* sweep removes the blob or the row of a soft-deleted record before the grace
\* period has elapsed since its current deletedAt
C11_RetainedForGracePeriod == [][C11_Step]_vars

\* the record is soft-deleted for longer than the grace period
Expired(id) ==
  /\ files[id].exists /\ files[id].isDeleted
  /\ files[id].deletedAt < now - GraceDays

\* the row of the record and its blob are gone
PurgedAway(id) ==
  /\ id <= Len(issued)
  /\ ~files[id].exists
  /\ issued[id] \notin blobs

\* C12: a record that is soft-deleted for longer than the grace period is
\* purged in the end, row and blob, while the sweep keeps being run, whichever
\* of the deletion timer and the sweep comes first
C12_EventuallyPurged ==
  \A id \in FileIds : [](Expired(id) => <>PurgedAway(id))

\* a run of the sweep has returned
SweepDone == sweep.op = "cleanupDeletedFiles" /\ sweep.pc = "done"

\* C13: a run of cleanupDeletedFiles returns without an error after a turn of
\* its loop for every record its query found, whether the unlink or the delete
\* of a record failed or not
C13_SweepVisitsAll ==
  SweepDone => (~sweep.error /\ sweep.visited = sweep.found)

\* a sweep of two records has returned: the first one could not be purged and
\* is still there, the second one is purged
C13_Witness ==
  /\ SweepDone
  /\ sweep.found = {1, 2}
  /\ files[1].exists
  /\ ~files[2].exists

\* a run of the sweep that follows a run changes neither the rows nor the blobs
C14_SecondRunStep ==
  (sweep.pc \in {"unlink", "delete"} /\ sweep.again)
    => (files' = files /\ blobs' = blobs)

\* C14: a run of cleanupDeletedFiles that follows a run on the same store
\* returns without an error and leaves the rows and the blobs as the first run
\* left them
C14_SweepIdempotent ==
  /\ [](SweepDone => ~sweep.error)
  /\ [][C14_SecondRunStep]_vars

\* a second run has returned; the first run had purged record 1, and the
\* second run found a record that cannot be purged
C14_Witness ==
  /\ SweepDone /\ sweep.again
  /\ Len(issued) >= 2 /\ ~files[1].exists /\ issued[1] \notin blobs
  /\ sweep.found = {2}


\* a batch upload at a time, with disk and database free to fail
MultiNext ==
  \/ \E fls \in MultiFiles, rnds \in UNION {[1..n -> 0..(RandomSpace - 1)] : n \in 0..2} :
       uploadMultiple_start(1, fls, "Candidate", "u1", rnds)
  \/ \E i \in 1..2, ok \in BOOLEAN : uploadMultiple_write(1, i, ok)
  \/ \E i \in 1..2, ok \in BOOLEAN : uploadMultiple_save(1, i, ok)

MultiSpec == Init /\ [][MultiNext]_vars

Multi(s) == reqs[s].op = "uploadMultiple"

\* C15: uploadMultiple puts every upload of the batch in flight before it
\* awaits any of them, and as soon as one of them has failed the call has
\* failed: the caller gets the error and no field-to-record mapping, whatever
\* the other uploads of the batch did
C15_AllStarted ==
  \A s \in Slots : (~Multi(s) /\ Multi(s)') =>
    \A i \in 1..Len(reqs'[s].parts) : reqs'[s].parts[i].pc = "write"
C15_AnyFailureFailsAll ==
  \A s \in Slots : Multi(s) =>
    /\ (\E i \in 1..Len(reqs[s].parts) : reqs[s].parts[i].pc = "failed")
         => (reqs[s].answer = "error" /\ reqs[s].status = 500)
    /\ (reqs[s].answer = "error") => (reqs[s].returned = NoMapping)
    /\ (reqs[s].answer = "ok") =>
         (\A i \in 1..Len(reqs[s].parts) : reqs[s].parts[i].pc = "ok")
C15_FailsAsAWhole == []C15_AnyFailureFailsAll /\ [][C15_AllStarted]_vars
C15_Witness ==
  /\ Multi(1) /\ reqs[1].pc = "done" /\ reqs[1].answer = "error"
  /\ reqs[1].returned = NoMapping
  /\ \E i, j \in 1..Len(reqs[1].parts) :
       /\ reqs[1].parts[i].pc = "failed"
       /\ reqs[1].parts[j].pc = "ok" /\ files[reqs[1].parts[j].doc._id].exists


(* ------------------------------------------- concurrent reads of one record *)
\* the store holds one internal record of a Client with no named readers
InitRace ==
  /\ InitAccess
  /\ candidate = NoCandidate
  /\ files[1].entityType = "Client"
  /\ files[1].accessLevel = "internal"
  /\ files[1].allowedUsers = {}
  /\ files[1].uploadedBy = "u1"

\* two requests at a time, each of the three tracked read paths, by a
\* recruiter and by an admin, and deletes by the uploader with their timers
NextRace ==
  \/ \E s \in Slots, u \in {"u1", "u3"} : getFile_find(s, 1, UserDoc(u))
  \/ \E s \in Slots : getFile_save(s)
  \/ \E s \in Slots : getFile_disk(s)
  \/ \E s \in Slots, u \in {"u1", "u3"} : serveFile_find(s, 1, NestedUrl(issued[1]), UserDoc(u))
  \/ \E s \in Slots, u \in {"u1", "u3"} : downloadFile_find(s, 1, UserDoc(u))
  \/ \E s \in Slots : sendFile(s)
  \/ \E s \in Slots : trackAccess(s)
  \/ \E s \in Slots : deleteFile_find(s, 1, ObjectId("u1"))
  \/ \E s \in Slots : deleteFile_save(s)
  \/ \E t \in delTimers : schedulePhysicalDeletion_fire(t)

RaceSpec == InitRace /\ [][NextRace]_vars

\* C16: the stored accessCount of a record never decreases, whatever the
\* interleaving of the concurrent reads of that record
C16_Step ==
  \A id \in FileIds :
    (files[id].exists /\ files'[id].exists)
      => files'[id].accessCount >= files[id].accessCount
C16_AccessCountNeverDecreases == [][C16_Step]_vars


\* C17: getFile changes the tracking fields of a record only in a call that
\* succeeds: a call answered with an error (not found, soft-deleted, denied,
\* blob missing on disk) has saved no tracking update, and a call answered
\* with the descriptor has saved one
C17_TracksOnlyOnSuccess ==
  \A s \in Slots :
    Answered(s, {"getFile"}) => (reqs[s].tracked <=> reqs[s].status = 200)


(* ------------------------------------------------ field names to categories *)
\* pieces of upload field names: the keywords of the table, some of them in
\* capitals, and pieces that hold no keyword
NamePieces ==
  {categoryMap[i][1] : i \in 1..Len(categoryMap)} \cup
  {<<"C", "V">>,
   <<"R", "e", "s", "u", "m", "e">>,
   <<"P", "A", "N">>,
   <<"_", "2">>,
   <<"r", "a", "n", "d", "o", "m", "F", "i", "e", "l", "d">>,
   <<"c", "o", "m">>,
   <<"C", "a", "r", "d">>,
   <<"y">>}

\* field names of one piece or two
FieldNames == NamePieces \cup {a \o b : a, b \in NamePieces}

\* a caller asks for the category of a field name
determineCategory_call(s, fieldName) ==
  /\ Free(s)
  /\ reqs' = [reqs EXCEPT ![s] =
       [op |-> "determineCategoryFromFieldName", pc |-> "done",
        fieldName |-> fieldName,
        category |-> determineCategoryFromFieldName(fieldName)]]
  /\ UNCHANGED <<files, nextId, issued, blobs, candidate, storage, time, scanTimers, delTimers, now, sweep>>

CategoryNext == \E fieldName \in FieldNames : determineCategory_call(1, fieldName)

CategorySpec == Init /\ [][CategoryNext]_vars

Categorised(s) == reqs[s].op = "determineCategoryFromFieldName"

\* key occurs in name, letters compared without regard to case
Occurs(key, name) ==
  \E i \in 1..Len(name) :
    /\ i + Len(key) - 1 <= Len(name)
    /\ \A j \in 1..Len(key) : LowerChar(name[i + j - 1]) = LowerChar(key[j])

\* the entries of the table whose keyword occurs in name
Hits(name) == {i \in 1..Len(categoryMap) : Occurs(categoryMap[i][1], name)}

\* the category of the first keyword of the table that occurs, else other
TableCategory(name) ==
  IF Hits(name) = {} THEN "other"
  ELSE categoryMap[CHOOSE i \in Hits(name) : \A j \in Hits(name) : i <= j][2]

KycKeys == {<<"a", "a", "d", "h", "a", "a", "r">>, <<"p", "a", "n">>, <<"p", "a", "s", "s", "p", "o", "r", "t">>}
ResumeKeys == {<<"r", "e", "s", "u", "m", "e">>, <<"c", "v">>}

\* the rule and the examples that follow from it
C18_Rule(s) ==
  /\ reqs[s].category \in CategoryEnum
  /\ reqs[s].category = TableCategory(reqs[s].fieldName)
  /\ (reqs[s].fieldName = <<"c", "e", "r", "t", "i", "f", "i", "c", "a", "t", "e", "_", "2">>)
       => reqs[s].category = "education_certificate"
  /\ (reqs[s].fieldName = <<"r", "a", "n", "d", "o", "m", "F", "i", "e", "l", "d">>)
       => reqs[s].category = "other"
  /\ (\E k \in ResumeKeys : Occurs(k, reqs[s].fieldName))
       => reqs[s].category = "resume"

\* C18 as stated: determineCategoryFromFieldName maps a field name to the
\* category of the first keyword of the table that occurs in it without regard
\* to case, and to other when none occurs; so certificate_2 maps to
\* education_certificate, a name containing resume or cv to resume, a name
\* containing aadhaar, pan or passport to kyc_document, randomField to other
C18_AnyKycNameIsKyc ==
  \A s \in Slots : Categorised(s) =>
    /\ C18_Rule(s)
    /\ (\E k \in KycKeys : Occurs(k, reqs[s].fieldName))
         => reqs[s].category = "kyc_document"

\* the keywords that stand before aadhaar in the table
EarlierKeys == {categoryMap[i][1] : i \in 1..10}

\* C18, amended: the same rule and examples, where a name containing aadhaar,
\* pan or passport maps to kyc_document when none of the ten keywords that
\* stand before them in the table occurs in it
C18_FirstKeywordWins ==
  \A s \in Slots : Categorised(s) =>
    /\ C18_Rule(s)
    /\ ( /\ \E k \in KycKeys : Occurs(k, reqs[s].fieldName)
         /\ \A k \in EarlierKeys : ~Occurs(k, reqs[s].fieldName) )
         => reqs[s].category = "kyc_document"

\* a name with two keywords in it, in capitals, was classified by the earlier
\* one in the table although it comes later in the name
C18_Witness ==
  /\ Categorised(1)
  /\ reqs[1].fieldName = <<"P", "A", "N", "c", "e", "r", "t", "i", "f", "i", "c", "a", "t", "e">>
  /\ reqs[1].category = "education_certificate"


(* ------------------------------------------ every operation on one record *)
\* one upload, the three kinds of read, deletes, verifications by a recruiter,
\* an admin and a reviewer of hr, the timers and the sweep, a month at a time;
\* the disk and the database do not fail
RecordNext ==
  \/ Month
  \/ \E n \in OriginalNames :
       nextId = 1 /\ uploadSingle_write(1, n, "Candidate", "u1", "resume", 0, TRUE)
  \/ uploadSingle_save(1, TRUE)
  \/ \E id \in FileIds : initiateVirusScan_fire(id, TRUE)
  \/ getFile_find(1, 1, UserDoc("u3"))
  \/ getFile_save(1)
  \/ getFile_disk(1)
  \/ \E id \in 1..Len(issued) : serveFile_find(1, id, NestedUrl(issued[id]), UserDoc("u3"))
  \/ downloadFile_find(1, 1, UserDoc("u3"))
  \/ sendFile(1)
  \/ trackAccess(1)
  \/ \E id \in {i \in Rows : ~files[i].isDeleted} : deleteFile_find(1, id, ObjectId("u1"))
  \/ deleteFile_save(1)
  \/ \E t \in delTimers : schedulePhysicalDeletion_fire(t)
  \/ \E user \in {UserDoc("u1"), HrDoc}, status \in {"approved", "rejected"}, notes \in {"", "n"} :
       verifyDocument_find(1, 1, user, status, notes)
  \/ verifyDocument_save(1)
  \/ \E user \in {UserDoc("u1"), UserDoc("u3")}, status \in {"approved", "rejected"} :
       bulkVerify(1, {1, 2}, user, status)
  \/ cleanupDeletedFiles_find
  \/ cleanupDeletedFiles_unlink(TRUE)
  \/ cleanupDeletedFiles_delete(TRUE)

RecordSpec == Init /\ [][RecordNext]_vars


VerifyOps == {"verifyDocument", "bulkVerify"}

VerificationFields(file) == <<file.isVerified, file.verifiedBy, file.verifiedAt>>

\* a change of the verification fields of a row is the work of a verify request
\* that a principal of one of the three roles was let through to make, and it
\* sets the fields from that request
C19_Step ==
  \A id \in FileIds :
    ( /\ files[id].exists /\ files'[id].exists
      /\ VerificationFields(files'[id]) # VerificationFields(files[id]) )
    => \E s \in Slots :
         /\ reqs'[s].op \in VerifyOps /\ reqs'[s].pc = "done" /\ reqs'[s].status = 200
         /\ id \in reqs'[s].targets
         /\ reqs'[s].who.role \in {"admin", "super_admin", "hr"}
         /\ files'[id].isVerified = (reqs'[s].given = "approved")
         /\ files'[id].verifiedBy = reqs'[s].who._id
         /\ files'[id].verifiedAt = now

\* while the answer of a verify request stands, its rows hold what it set
C19_Verdict ==
  \A s \in Slots :
    (Answered(s, VerifyOps) /\ reqs[s].status = 200) =>
      \A id \in reqs[s].targets :
        files[id].exists =>
          /\ files[id].isVerified = (reqs[s].given = "approved")
          /\ files[id].verifiedBy = reqs[s].who._id

\* a principal of another role is refused and changes nothing
C19_Refused ==
  \A s \in Slots :
    (reqs'[s] # reqs[s] /\ reqs'[s].op \in VerifyOps
       /\ reqs'[s].who.role \notin {"admin", "super_admin", "hr"})
    => (reqs'[s].status = 403 /\ files' = files)

\* C19: isVerified, verifiedBy and verifiedAt of a record change only through
\* verifyDocument or bulkVerify, which the routes open to the roles admin,
\* super_admin and hr only; upload, read, delete, the scan timer and the sweep
\* leave them as they are, and a verification leaves isVerified true exactly
\* when the status given is approved
C19_VerifiedOnlyByReview ==
  /\ []C19_Verdict
  /\ [][C19_Step /\ C19_Refused]_vars

\* a record that was scanned, read and soft-deleted, then approved by the
\* reviewer of hr
C19_Witness ==
  /\ files[1].exists /\ files[1].isDeleted
  /\ files[1].virusScanStatus = "clean" /\ files[1].accessCount >= 1
  /\ Answered(1, {"verifyDocument"}) /\ reqs[1].status = 200
  /\ reqs[1].who.role = "hr" /\ reqs[1].given = "approved"
  /\ files[1].isVerified /\ files[1].verifiedBy = "u5" /\ files[1].verifiedAt = now


\* the fields a record is given when it is created
CreationFields(file) ==
  <<file._id, file.s3Key, file.uploadedBy, file.entityType, file.entityId>>

C20_Step ==
  \A id \in FileIds :
    (files[id].exists /\ files'[id].exists)
      => CreationFields(files'[id]) = CreationFields(files[id])

\* the row under an id is the one created with that id and with the key
\* issued for it
C20_AsCreated ==
  \A id \in Rows : files[id]._id = id /\ files[id].s3Key = issued[id]

\* C20: id, s3Key, uploadedBy, entityType and entityId of a record keep the
\* values of its creation in every later state in which the row exists,
\* whatever operation, middleware, timer or sweep runs
C20_CreationFieldsImmutable == []C20_AsCreated /\ [][C20_Step]_vars

\* a record that was read, verified and soft-deleted and is what it was
C20_Witness ==
  /\ files[1].exists /\ files[1].isDeleted /\ files[1].isVerified
  /\ files[1].accessCount = MaxAccess
  /\ CreationFields(files[1]) = <<1, issued[1], "u1", "Candidate", EntityId>>


(* ------------------------------------- the two read policies side by side *)
\* one stored record of any policy, read through getFile by one request and
\* through the download and serve middleware by another
NextPolicy ==
  \/ \E u \in Users : getFile_find(1, 1, UserDoc(u))
  \/ getFile_save(1)
  \/ getFile_disk(1)
  \/ \E u \in Users : downloadFile_find(2, 1, UserDoc(u))
  \/ \E u \in Users : serveFile_find(2, 1, NestedUrl(issued[1]), UserDoc(u))
  \/ checkFileAccess_candidate(2)
  \/ sendFile(2)
  \/ trackAccess(2)

PolicySpec == InitAccess /\ [][NextPolicy]_vars

\* the request was refused by the read policy
Refused(s) == reqs[s].status = 403

\* C21: for a record that is not deleted and an authenticated principal,
\* getFile grants access exactly when the serve and download middleware do
C21_SamePolicy ==
  ( /\ AnsweredLive(1, {"getFile"}) /\ reqs[1].found
    /\ AnsweredLive(2, {"serveFile", "downloadFile"}) /\ reqs[2].found
    /\ reqs[1].who = reqs[2].who )
  => (Refused(1) <=> Refused(2))


ServeOps == {"serveFile", "downloadFile"}

\* the tracking update of the middleware is the one of getFile: the count the
\* handler loaded plus one, the caller and the time of the save
C22_Step ==
  \A s \in Slots :
    (reqs[s].op \in ServeOps /\ reqs[s].pc = "track" /\ reqs'[s].pc = "done")
    => LET id == reqs[s].doc._id IN
       /\ reqs'[s].tracked
       /\ files'[id].accessCount = reqs[s].doc.accessCount + 1
       /\ files'[id].lastAccessedBy = reqs[s].who._id
       /\ files'[id].lastAccessedAt = now

C22_ServeTracksUsers ==
  \A s \in Slots :
    (Answered(s, ServeOps) /\ reqs[s].status = 200)
      => (reqs[s].tracked <=> reqs[s].who # Anonymous)

C23_NoReschedule ==
  /\ \A id \in scanTimers' \ scanTimers : ~files[id].exists /\ files'[id].exists
  /\ \A t \in delTimers' \ delTimers :
       \E s \in Slots : /\ reqs[s].op = "deleteFile" /\ reqs[s].pc = "save"
                        /\ reqs'[s].pc = "done" /\ reqs'[s].doc = NoFile

\* a pending record whose scan timer is gone stays pending while it exists
C23_LostStep ==
  \A id \in FileIds : (ScanLost(id) /\ files'[id].exists) => ScanLost(id)'

\* a blob leaves the disk through a deletion timer that was set, or in the sweep
C23_BlobStep ==
  \A k \in blobs \ blobs' :
    \/ \E t \in delTimers \ delTimers' : t.filePath = k
    \/ sweep.pc = "unlink"

\* C23: the deferred scan and the deferred blob deletion are not durable: a
\* timer lost in a restart is not set again by anything, its action does not
\* run, and a record whose scan timer was lost stays pending in every later
\* state
C23_TimersAreNotDurable == [][C23_NoReschedule /\ C23_LostStep /\ C23_BlobStep]_vars

\* after restarts, at the end of the run: the record is still pending, it is
\* soft-deleted, its blob is on disk and no timer is set
C23_Witness ==
  /\ now = MaxTime
  /\ ScanLost(1) /\ files[1].isDeleted /\ files[1].s3Key \in blobs
  /\ scanTimers = {} /\ delTimers = {}


\* C24: when uploadMultiple has failed because one of its uploads failed,
\* none of the rows and none of the blobs the uploads of that call created
\* is left in the store
C24_AllOrNothing ==
  \A s \in Slots :
    (Multi(s) /\ reqs[s].pc = "done" /\ reqs[s].answer = "error") =>
      \A i \in 1..Len(reqs[s].parts) :
        /\ reqs[s].parts[i].key \notin blobs
        /\ \A id \in Rows : files[id].s3Key # reqs[s].parts[i].key


(* ----------------------------------------------- the candidate's workflow *)
\* the enum of workflowStage, in the documented order
StageOrder ==
  <<"Personal Details", "Education", "Employment", "KYC", "Financial", "Review", "Complete">>

Stages == {StageOrder[i] : i \in 1..Len(StageOrder)}

\* WorkflowService.getNextStep: stageFlow[currentStage] || null
getNextStep(currentStage) ==
  CASE currentStage = "Personal Details" -> "Education"
    [] currentStage = "Education" -> "Employment"
    [] currentStage = "Employment" -> "KYC"
    [] currentStage = "KYC" -> "Financial"
    [] currentStage = "Financial" -> "Review"
    [] currentStage = "Review" -> "Complete"
    [] OTHER -> "null"

\* the steps a form may post; bogus stands for any step the switch ignores
Steps == {"personal", "education", "employment", "kyc", "financial", "recruiterCall", "bogus"}

\* the switch of upsertCandidate: the stage assigned in the case of the step
StageOfStep(step, stage) ==
  CASE step = "personal" -> "Education"
    [] step = "education" -> "Employment"
    [] step = "employment" -> "KYC"
    [] step = "kyc" -> "Financial"
    [] step = "financial" -> "Review"
    [] OTHER -> stage

\* upsertCandidate up to its save: the lookup and the 404 and 403 exits, or a
\* new Candidate; the case of the step, where a file to upload ends the
\* request (FileService is the module object here and has no uploadSingle)
\* and an unknown step is answered 400
upsertCandidate_find(s, withId, step, user, withFile) ==
  /\ Free(s)
  /\ withId \/ ~candidate.exists
  /\ LET held == IF withId THEN candidate
                 ELSE [exists |-> TRUE, createdBy |-> user._id, assignedTo |-> NoUser,
                       workflowStage |-> "Personal Details"]
         req(pc, status, doc) ==
           [op |-> "upsertCandidate", pc |-> pc, status |-> status, step |-> step,
            who |-> user, withId |-> withId, doc |-> doc,
            before |-> IF candidate.exists THEN candidate.workflowStage ELSE "null"]
     IN reqs' = [reqs EXCEPT ![s] =
          IF withId /\ ~candidate.exists THEN req("done", 404, NoCandidate)
          ELSE IF /\ withId
                  /\ toString(ObjectId(candidate.createdBy)) # toString(ObjectId(user._id))
                  /\ user.role \notin {"admin", "super_admin"}
          THEN req("done", 403, NoCandidate)
          ELSE IF step \in {"personal", "education"} /\ withFile
          THEN req("done", 500, NoCandidate)
          ELSE IF step \notin Steps \ {"bogus"} THEN req("done", 400, NoCandidate)
          ELSE req("save", 0, [held EXCEPT !.workflowStage = StageOfStep(step, held.workflowStage)])]
  /\ UNCHANGED <<files, nextId, issued, blobs, candidate, storage, time, scanTimers, delTimers, now, sweep>>

\* upsertCandidate: candidate.save() and the answer
upsertCandidate_save(s) ==
  /\ reqs[s].op = "upsertCandidate" /\ reqs[s].pc = "save"
  /\ candidate' = reqs[s].doc
  /\ reqs' = [reqs EXCEPT ![s].pc = "done", ![s].status = 200, ![s].doc = NoCandidate]
  /\ UNCHANGED <<files, nextId, issued, blobs, scanTimers, delTimers, now, sweep, storage, time>>

\* one candidate, created and edited through the multi-step form by its
\* creator, by another recruiter's client and by an admin
WorkflowNext ==
  \/ \E withId \in BOOLEAN, step \in Steps, u \in {"u1", "u2", "u3"}, withFile \in BOOLEAN :
       upsertCandidate_find(1, withId, step, UserDoc(u), withFile)
  \/ upsertCandidate_save(1)

WorkflowSpec == Init /\ [][WorkflowNext]_vars

\* the place of a stage in the documented order
StageIndex(stage) == CHOOSE i \in 1..Len(StageOrder) : StageOrder[i] = stage

\* getNextStep names the direct successor of each stage, nothing after Complete
C25_NextStep ==
  /\ \A i \in 1..(Len(StageOrder) - 1) : getNextStep(StageOrder[i]) = StageOrder[i + 1]
  /\ getNextStep("Complete") = "null"

C25_StageStep ==
  (candidate.exists /\ candidate'.exists /\ candidate'.workflowStage # candidate.workflowStage)
    => StageIndex(candidate'.workflowStage) = StageIndex(candidate.workflowStage) + 1

\* C25: over any sequence of upsertCandidate steps on one candidate the
\* workflowStage follows the documented order, never back and never past a
\* stage, and getNextStep returns the direct successor of each stage and
\* nothing after Complete
C25_StagesInOrder == []C25_NextStep /\ [][C25_StageStep]_vars


\* C26: in every state the operations of FileService reach, every record that
\* exists and is not soft-deleted has its blob in the blob store
C26_LiveRecordsHaveBlobs ==
  \A id \in Rows : ~files[id].isDeleted => files[id].s3Key \in blobs

\* a month after its upload the record was scanned, read and verified, a sweep
\* has run over the store, and the record and its blob are there
C26_Witness ==
  /\ now > GraceDays /\ SweepDone
  /\ files[1].exists /\ ~files[1].isDeleted /\ files[1].s3Key \in blobs
  /\ Clean(1) /\ files[1].isVerified /\ files[1].accessCount >= 1


\* C27: soft delete takes effect once: isDeleted never goes back to false, and
\* a deleteFile on a record that is soft-deleted already leaves deletedAt and
\* deletedBy as they are and sets no further deletion timer
C27_Step ==
  \A id \in FileIds :
    (files[id].exists /\ files[id].isDeleted /\ files'[id].exists)
    => /\ files'[id].isDeleted
       /\ files'[id].deletedAt = files[id].deletedAt
       /\ files'[id].deletedBy = files[id].deletedBy
       /\ \A t \in delTimers' \ delTimers : t.filePath # files[id].s3Key
C27_DeletedOnce == [][C27_Step]_vars


\* C28: after an uploadMultiple that succeeded, every record the call saved is
\* in the mapping it returned, whatever the order in which its uploads
\* completed and however many files a field carries
C28_MappingHoldsEveryRecord ==
  \A s \in Slots :
    (Multi(s) /\ reqs[s].answer = "ok") =>
      \A i \in 1..Len(reqs[s].parts) :
        \E e \in reqs[s].returned.fields :
          e[1] = reqs[s].parts[i].fieldName /\ e[2] = reqs[s].parts[i].doc


(* --------------------------------------------------------- the rate limiter *)
\* two callers of one rate-limited route, each answered in its own slot
RateNext ==
  \/ Elapse
  \/ cleanupExpired
  \/ \E r \in ClockReads(4) : checkRateLimit(1, "ip1", RateLimit, RateWindow, r)
  \/ \E r \in ClockReads(4) : checkRateLimit(2, "ip2", RateLimit, RateWindow, r)

RateSpec == Init /\ [][RateNext]_vars

RateAnswered(s) == reqs[s].op = "checkRateLimit"

\* C29: over any sequence of checkRateLimit calls for one identifier with one
\* limit and window, at most limit calls of a window are answered allowed,
\* every further call of that window is answered allowed = false with
\* remaining = 0, and remaining is never negative
C29_AtMostLimitPerWindow ==
  \A s \in Slots : RateAnswered(s) =>
    /\ reqs[s].granted <= RateLimit
    /\ reqs[s].remaining >= 0
    /\ ~reqs[s].allowed => (reqs[s].remaining = 0 /\ reqs[s].granted = RateLimit)

(* ------------------------------------------------- the password-reset token *)
\* one user's reset token: stored, presented, deleted, expiring
ResetNext ==
  \/ Elapse
  \/ cleanupExpired
  \/ \E token \in ResetTokens : storePasswordResetToken(1, "u1", token, ResetTtl)
  \/ \E token \in ResetTokens : verifyPasswordResetToken(1, "u1", token)
  \/ deletePasswordResetToken(1, "u1")

ResetSpec == Init /\ [][ResetNext]_vars

TokenPresented(s) == reqs[s].op = "verifyPasswordResetToken"

\* the call in slot s presented the token stored last, before five calls with
\* a wrong token
CorrectInTime(s) ==
  /\ TokenPresented(s)
  /\ reqs[s].current # "none"
  /\ reqs[s].token = reqs[s].current
  /\ reqs[s].wrongBefore < 5

\* after five calls with a wrong token every call returns false
SpentReturnsFalse(s) ==
  (TokenPresented(s) /\ reqs[s].wrongBefore >= 5) => ~reqs[s].result

\* C30 as stated: after five verifyPasswordResetToken calls with a wrong token
\* every later call returns false until a new token is stored, and a call with
\* the correct token before that returns true and leaves the attempts alone
C30_CorrectBeforeFiveReturnsTrue ==
  \A s \in Slots :
    /\ SpentReturnsFalse(s)
    /\ CorrectInTime(s) =>
         (reqs[s].result /\ reqs[s].attemptsAfter = reqs[s].attemptsBefore)

\* C30: after five verifyPasswordResetToken calls with a wrong token every
\* later call returns false until a new token is stored, and a call with the
\* correct token before that, made while the token has not expired, returns
\* true and leaves the attempts alone
C30_FiveFailuresSpendTheToken ==
  \A s \in Slots :
    /\ SpentReturnsFalse(s)
    /\ (CorrectInTime(s) /\ reqs[s].calledAt <= reqs[s].storedAt + ResetTtl) =>
         (reqs[s].result /\ reqs[s].attemptsAfter = reqs[s].attemptsBefore)

\* the correct token was presented after five calls with a wrong one, in time,
\* and refused
C30_Witness ==
  \E s \in Slots :
    /\ TokenPresented(s)
    /\ reqs[s].token = reqs[s].current
    /\ reqs[s].wrongBefore = 5
    /\ reqs[s].calledAt <= reqs[s].storedAt + ResetTtl
    /\ ~reqs[s].result

====
